---- MODULE Spec2Model ----
(***************************************************************************)
(* A model of the contractor-applicant pipeline: the Airtable gateway      *)
(* (airtable_client.py), the compressor (json_compression.py), the         *)
(* decompressor (json_decompression.py), the shortlist evaluator           *)
(* (shortlist_automation.py) and the LLM evaluator (llm_evaluation.py).    *)
(*                                                                         *)
(* The remote store is modelled as five tables, each a sequence of rows in *)
(* creation order, that keep exactly the fields written to them.  Every    *)
(* remote call may raise; where it raises is an input of the operation.    *)
(***************************************************************************)
EXTENDS Integers, Sequences, FiniteSets, TLC

VARIABLES
    applicants,         \* Applicants table: rows [id, aid, fields]
    personalDetails,    \* Personal Details table: rows [id, aid, fields]
    workExperience,     \* Work Experience table: rows [id, aid, fields]
    salaryPreferences,  \* Salary Preferences table: rows [id, aid, fields]
    shortlistedLeads,   \* Shortlisted Leads table: rows [applicant, json, reason]
    lastOp,             \* the last public operation: its name, arguments and outcome
    batch,              \* the running *_all_applicants loop, if any
    failures            \* the number of remote calls that have raised so far

vars == <<applicants, personalDetails, workExperience, salaryPreferences,
          shortlistedLeads, lastOp, batch, failures>>

\* The remote calls that raise in one run are at most this many.
MaxFailures == 2

-----------------------------------------------------------------------------
(* Values of a JSON document field or of an Airtable record field.  A value *)
(* is a string, a number, JSON null, absent (the key is missing), or "obj": *)
(* an array or object standing where a scalar is expected.                  *)

Str(s) == [t |-> "str", s |-> s, n |-> 0]
Num(n) == [t |-> "num", s |-> "", n |-> n]
Null == [t |-> "null", s |-> "", n |-> 0]
Absent == [t |-> "absent", s |-> "", n |-> 0]
Obj == [t |-> "obj", s |-> "", n |-> 0]

\* Python's dict.get(key, default): the default only when the key is missing.
DictGet(v, default) == IF v.t = "absent" THEN default ELSE v

\* Python truthiness of a field value.
Truthy(v) ==
    \/ v.t = "str" /\ v.s # ""
    \/ v.t = "num" /\ v.n # 0
    \/ v.t = "obj"

\* Python's `x or ''` as written in the decompressor.
OrEmpty(v) == IF Truthy(v) THEN v ELSE Str("")

-----------------------------------------------------------------------------
(* models.py: pydantic validation.  A required str field accepts a string, *)
(* an Optional[str] field also null or a missing key (both become None), a *)
(* float or int field accepts a number.                                    *)

ValidStr(v) == v.t = "str"
ValidOptStr(v) == v.t \in {"str", "null", "absent"}
ValidNum(v) == v.t = "num"
OptValue(v) == IF v.t = "str" THEN v ELSE Null

ValidPersonal(p) ==
    /\ ValidStr(p.full_name)
    /\ ValidStr(p.email)
    /\ ValidStr(p.location)
    /\ ValidOptStr(p.linkedin)

ValidExperience(e) ==
    /\ ValidStr(e.company)
    /\ ValidStr(e.title)
    /\ ValidStr(e.start_date)
    /\ ValidOptStr(e.end_date)
    /\ ValidOptStr(e.technologies)

ValidSalary(s) ==
    /\ ValidNum(s.preferred_rate)
    /\ ValidNum(s.minimum_rate)
    /\ ValidStr(s.currency)
    /\ ValidNum(s.availability_hours)

ValidDocument(d) ==
    /\ ValidPersonal(d.personal)
    /\ \A i \in DOMAIN d.experience : ValidExperience(d.experience[i])
    /\ ValidSalary(d.salary)

\* The model object built from valid data: optional fields left out or null
\* are None.
ModelOf(d) ==
    [personal |-> [d.personal EXCEPT !.linkedin = OptValue(@)],
     experience |-> [i \in DOMAIN d.experience |->
                        [d.experience[i] EXCEPT !.end_date = OptValue(@),
                                                !.technologies = OptValue(@)]],
     salary |-> d.salary]

\* CompressedApplication(**data): raises ValidationError or yields the model.
CompressedApplication(d) ==
    IF ValidDocument(d) THEN [ok |-> TRUE, app |-> ModelOf(d)]
    ELSE [ok |-> FALSE, app |-> d]

-----------------------------------------------------------------------------
(* The text of the Compressed JSON field: missing or empty, text that is   *)
(* not JSON, or the JSON text of a document.                               *)

NoJson == [k |-> "none"]
Malformed == [k |-> "malformed"]
\* json.dumps(compressed_app.dict(), indent=2)
JsonDumps(app) == [k |-> "json", data |-> app]
\* json.loads(text): raises on text that is not JSON
JsonLoads(text) ==
    IF text.k = "json" THEN [ok |-> TRUE, data |-> text.data]
    ELSE [ok |-> FALSE, data |-> <<>>]

-----------------------------------------------------------------------------
(* airtable_client.py: the record store gateway.  A table is a sequence of *)
(* rows [id, aid, fields]: the record id, the Applicant ID field and the    *)
(* other fields.  `fail` names the remote call of the operation that       *)
(* raises ("none": no call raises).                                        *)

TheStore ==
    [applicants |-> applicants, personal |-> personalDetails,
     work |-> workExperience, salary |-> salaryPreferences,
     leads |-> shortlistedLeads]

\* table.all(formula="{Applicant ID}='<a>'"): the rows of applicant a, in order
\* variant: the lookup does not filter by applicant
Matching_any(table, a) == table

Matching(table, a) == SelectSeq(table, LAMBDA r : r.aid = a)

\* records[0] if records else None
FirstMatch(table, a) ==
    LET records == Matching(table, a)
    IN  IF records = <<>> THEN [found |-> FALSE]
        ELSE [found |-> TRUE, row |-> records[1]]

get_applicant_by_id(store, a) == FirstMatch(store.applicants, a)
get_personal_details(store, a) == FirstMatch(store.personal, a)
get_work_experience(store, a) == Matching(store.work, a)
get_salary_preferences(store, a) == FirstMatch(store.salary, a)

RowIds(table) == {table[i].id : i \in DOMAIN table}

\* The id the store gives a new row: one no row of the table has.
FreshId(table) ==
    CHOOSE n \in 1..(Len(table) + 1) :
        /\ n \notin RowIds(table)
        /\ \A m \in 1..(n - 1) : m \in RowIds(table)

\* table.create(fields), the Applicant ID among the fields
TableCreate(table, a, fields) ==
    Append(table, [id |-> FreshId(table), aid |-> a, fields |-> fields])

\* table.update(record_id, fields): the fields given replace the row's, the
\* others stay
TableUpdate(table, id, fields) ==
    [i \in DOMAIN table |->
        IF table[i].id = id
        THEN [table[i] EXCEPT !.fields =
                [k \in DOMAIN @ |-> IF k \in DOMAIN fields THEN fields[k] ELSE @[k]]]
        ELSE table[i]]

\* table.delete(record_id)
TableDelete(table, id) == SelectSeq(table, LAMBDA r : r.id # id)

\* fail: a remote call of the operation (its read or its write) raises; the
\* except branch then returns False and the table is as it was.
update_compressed_json(store, a, compressed_json, fail) ==
    LET applicant_record == get_applicant_by_id(store, a)
    IN  IF fail THEN [ok |-> FALSE, store |-> store]
        ELSE IF ~applicant_record.found THEN [ok |-> FALSE, store |-> store]
        ELSE [ok |-> TRUE,
              store |-> [store EXCEPT !.applicants =
                  TableUpdate(@, applicant_record.row.id,
                              [CompressedJSON |-> compressed_json])]]

\* variant: the lead of an applicant replaces the leads the applicant has
create_shortlisted_lead_dedup(store, a, compressed_json, score_reason, fail) ==
    IF fail THEN [ok |-> FALSE, store |-> store]
    ELSE [ok |-> TRUE,
          store |-> [store EXCEPT !.leads =
              Append(SelectSeq(@, LAMBDA r : r.applicant # a),
                     [applicant |-> a, json |-> compressed_json,
                      reason |-> score_reason])]]

\* The row carries the applicant, the document text and the rationale; its
\* Created At timestamp is left out of the model.
create_shortlisted_lead(store, a, compressed_json, score_reason, fail) ==
    IF fail THEN [ok |-> FALSE, store |-> store]
    ELSE [ok |-> TRUE,
          store |-> [store EXCEPT !.leads =
              Append(@, [applicant |-> a, json |-> compressed_json,
                         reason |-> score_reason])]]

\* variant: a row is created whether or not one exists
UpsertOne_create(table, a, data, fail) ==
    IF fail THEN [ok |-> FALSE, table |-> table]
    ELSE [ok |-> TRUE, table |-> TableCreate(table, a, data)]

UpsertOne(table, a, data, fail) ==
    LET existing_record == FirstMatch(table, a)
    IN  IF fail THEN [ok |-> FALSE, table |-> table]
        ELSE IF existing_record.found
        THEN [ok |-> TRUE, table |-> TableUpdate(table, existing_record.row.id, data)]
        ELSE [ok |-> TRUE, table |-> TableCreate(table, a, data)]

upsert_personal_details(store, a, personal_data, fail) ==
    LET r == UpsertOne(store.personal, a, personal_data, fail)
    IN  [ok |-> r.ok, store |-> [store EXCEPT !.personal = r.table]]

upsert_salary_preferences(store, a, salary_data, fail) ==
    LET r == UpsertOne(store.salary, a, salary_data, fail)
    IN  [ok |-> r.ok, store |-> [store EXCEPT !.salary = r.table]]

RECURSIVE DeleteRows(_, _)
\* for record in existing_records: table.delete(record['id'])
DeleteRows(table, records) ==
    IF records = <<>> THEN table
    ELSE DeleteRows(TableDelete(table, Head(records).id), Tail(records))

RECURSIVE CreateRows(_, _, _)
\* for exp in experience_data: exp[Applicant ID] = a; table.create(exp)
CreateRows(table, a, experience_data) ==
    IF experience_data = <<>> THEN table
    ELSE CreateRows(TableCreate(table, a, Head(experience_data)), a,
                    Tail(experience_data))

\* variant: a call that fails puts the table back as it found it
upsert_work_experience_rollback(store, a, experience_data, failAt) ==
    LET existing_records == get_work_experience(store, a)
    IN  IF failAt # 0 THEN [ok |-> FALSE, store |-> store]
        ELSE [ok |-> TRUE,
              store |-> [store EXCEPT !.work =
                  CreateRows(DeleteRows(@, existing_records), a, experience_data)]]

\* A slip: the existing rows are not deleted before the new ones are created.
upsert_work_experience_append(store, a, experience_data, failAt) ==
    IF failAt # 0 THEN [ok |-> FALSE, store |-> store]
    ELSE [ok |-> TRUE,
          store |-> [store EXCEPT !.work = CreateRows(@, a, experience_data)]]

\* The remote calls of upsert_work_experience are numbered: 1 is the listing,
\* 2 .. 1+n the deletes of the n existing rows, the next ones the creates.
\* failAt is the number of the call that raises, 0 when none does.
WorkCalls(store, a, experience_data) ==
    1 + Len(get_work_experience(store, a)) + Len(experience_data)

upsert_work_experience(store, a, experience_data, failAt) ==
    LET existing_records == get_work_experience(store, a)
        n == Len(existing_records)
        deleted == IF failAt \in 2..(1 + n) THEN failAt - 2 ELSE n
        created == IF failAt > 1 + n THEN failAt - 2 - n ELSE Len(experience_data)
        afterDelete == DeleteRows(store.work, SubSeq(existing_records, 1, deleted))
    IN  IF failAt = 1 THEN [ok |-> FALSE, store |-> store]
        ELSE IF failAt \in 2..(1 + n)
        THEN [ok |-> FALSE, store |-> [store EXCEPT !.work = afterDelete]]
        ELSE [ok |-> failAt = 0,
              store |-> [store EXCEPT !.work =
                  CreateRows(afterDelete, a, SubSeq(experience_data, 1, created))]]

-----------------------------------------------------------------------------
(* json_compression.py: the compressor.                                    *)

\* fail: the first remote call that raises, one of the three reads ("read") or
\* one inside update_compressed_json ("update").
CompressFail == {"none", "read", "update"}

\* What a raising operation leaves behind: the store as it was.
Raise(error, store) ==
    [raised |-> TRUE, error |-> error, value |-> NoJson, store |-> store]

\* compressed_data: the document built from the three tables' rows, a missing
\* text field defaulting to '', a missing number to 0, the currency to 'USD'.
CompressedData(personal_row, work_rows, salary_row) ==
    [personal |->
        [full_name |-> DictGet(personal_row.fields.FullName, Str("")),
         email |-> DictGet(personal_row.fields.Email, Str("")),
         location |-> DictGet(personal_row.fields.Location, Str("")),
         linkedin |-> DictGet(personal_row.fields.LinkedIn, Str(""))],
     experience |->
        [i \in DOMAIN work_rows |->
            [company |-> DictGet(work_rows[i].fields.Company, Str("")),
             title |-> DictGet(work_rows[i].fields.Title, Str("")),
             start_date |-> DictGet(work_rows[i].fields.Start, Str("")),
             end_date |-> DictGet(work_rows[i].fields.End, Str("")),
             technologies |-> DictGet(work_rows[i].fields.Technologies, Str(""))]],
     salary |->
        [preferred_rate |-> DictGet(salary_row.fields.PreferredRate, Num(0)),
         minimum_rate |-> DictGet(salary_row.fields.MinimumRate, Num(0)),
         currency |-> DictGet(salary_row.fields.Currency, Str("USD")),
         availability_hours |-> DictGet(salary_row.fields.Availability, Num(0))]]

\* A slip: the document is written before it is validated.
compress_applicant_data_unvalidated(store, a, fail) ==
    LET personal_details == get_personal_details(store, a)
        salary_preferences == get_salary_preferences(store, a)
        compressed_data ==
            CompressedData(personal_details.row, get_work_experience(store, a),
                           salary_preferences.row)
        success ==
            update_compressed_json(store, a, JsonDumps(compressed_data), fail = "update")
    IN  IF fail = "read" THEN Raise("TransportError", store)
        ELSE IF ~personal_details.found \/ ~salary_preferences.found
        THEN Raise("MissingDataError", store)
        ELSE IF ~ValidDocument(compressed_data)
        THEN Raise("ValidationError", success.store)
        ELSE IF ~success.ok THEN Raise("UpdateFailed", store)
        ELSE [raised |-> FALSE, error |-> "", value |-> JsonDumps(compressed_data),
              store |-> success.store]

compress_applicant_data(store, a, fail) ==
    LET personal_details == get_personal_details(store, a)
        work_experience == get_work_experience(store, a)
        salary_preferences == get_salary_preferences(store, a)
        compressed_app ==
            CompressedApplication(CompressedData(personal_details.row,
                                                 work_experience,
                                                 salary_preferences.row))
        json_string == JsonDumps(compressed_app.app)
        success ==
            update_compressed_json(store, a, json_string, fail = "update")
    IN  IF fail = "read"
        THEN Raise("TransportError", store)
        ELSE IF ~personal_details.found \/ ~salary_preferences.found
        THEN Raise("MissingDataError", store)
        ELSE IF ~compressed_app.ok
        THEN Raise("ValidationError", store)
        ELSE IF ~success.ok
        THEN Raise("UpdateFailed", store)
        ELSE [raised |-> FALSE, error |-> "", value |-> json_string,
              store |-> success.store]

-----------------------------------------------------------------------------
(* json_decompression.py: the decompressor.                                *)

\* The remote failures of one decompression: of the read of the Applicant
\* record, of each of the three upserts, and of the final document update.
NoFail ==
    [get |-> FALSE, personal |-> FALSE, work |-> 0, salary |-> FALSE,
     update |-> FALSE]

PersonalData(app) ==
    [FullName |-> app.personal.full_name,
     Email |-> app.personal.email,
     Location |-> app.personal.location,
     LinkedIn |-> OrEmpty(app.personal.linkedin)]

\* A slip: the End field is filled from the technologies.
ExperienceData_slip(app) ==
    [i \in DOMAIN app.experience |->
        [Company |-> app.experience[i].company,
         Title |-> app.experience[i].title,
         Start |-> app.experience[i].start_date,
         End |-> OrEmpty(app.experience[i].technologies),
         Technologies |-> OrEmpty(app.experience[i].technologies)]]

ExperienceData(app) ==
    [i \in DOMAIN app.experience |->
        [Company |-> app.experience[i].company,
         Title |-> app.experience[i].title,
         Start |-> app.experience[i].start_date,
         End |-> OrEmpty(app.experience[i].end_date),
         Technologies |-> OrEmpty(app.experience[i].technologies)]]

SalaryData(app) ==
    [PreferredRate |-> app.salary.preferred_rate,
     MinimumRate |-> app.salary.minimum_rate,
     Currency |-> app.salary.currency,
     Availability |-> app.salary.availability_hours]

\* The three upserts in the order written; the outcome of each is dropped.
UpsertDocument(store, a, app, fail) ==
    LET s1 == upsert_personal_details(store, a, PersonalData(app), fail.personal).store
        s2 == upsert_work_experience(s1, a, ExperienceData(app), fail.work).store
    IN  upsert_salary_preferences(s2, a, SalaryData(app), fail.salary).store

\* The body of decompress_applicant_data's try block: raised when an exception
\* leaves it.
DecompressTry(store, a, fail) ==
    LET applicant_record == get_applicant_by_id(store, a)
        compressed_json == applicant_record.row.fields.CompressedJSON
        loaded == JsonLoads(compressed_json)
        compressed_app == CompressedApplication(loaded.data)
        Raised(error) ==
            [raised |-> TRUE, ok |-> FALSE, error |-> error, store |-> store]
    IN  IF fail.get THEN Raised("TransportError")
        ELSE IF ~applicant_record.found THEN Raised("NotFoundError")
        ELSE IF compressed_json = NoJson THEN Raised("MissingDataError")
        ELSE IF ~loaded.ok \/ ~compressed_app.ok THEN Raised("ValidationError")
        ELSE [raised |-> FALSE, ok |-> TRUE, error |-> "",
              store |-> UpsertDocument(store, a, compressed_app.app, fail)]

\* decompress_applicant_data without its except branch
decompress_applicant_data_uncaught(store, a, fail) ==
    DecompressTry(store, a, fail)

\* variant: a failed upsert makes the result false
decompress_applicant_data_strict(store, a, fail) ==
    LET body == DecompressTry(store, a, fail)
    IN  IF body.raised THEN [body EXCEPT !.raised = FALSE]
        ELSE [body EXCEPT !.ok = ~(fail.personal \/ fail.work # 0 \/ fail.salary)]

\* except Exception: False instead of the exception
decompress_applicant_data(store, a, fail) ==
    LET body == DecompressTry(store, a, fail)
    IN  IF body.raised THEN [body EXCEPT !.raised = FALSE] ELSE body

\* variant: the personal details of the loaded data are written before the
\* document is validated
decompress_from_json_file_eager(store, file, a, fail) ==
    LET loaded == JsonLoads(file)
        compressed_app == CompressedApplication(loaded.data)
        upserted == UpsertDocument(store, a, compressed_app.app, fail)
        json_string == JsonDumps(compressed_app.app)
    IN  IF ~loaded.ok
        THEN [raised |-> FALSE, ok |-> FALSE, error |-> "ValidationError",
              store |-> store]
        ELSE IF ~compressed_app.ok
        THEN [raised |-> FALSE, ok |-> FALSE, error |-> "ValidationError",
              store |-> upsert_personal_details(store, a,
                            PersonalData(loaded.data), FALSE).store]
        ELSE [raised |-> FALSE, ok |-> TRUE, error |-> "",
              store |-> update_compressed_json(upserted, a, json_string,
                                               fail.update).store]

\* `file` is the text of the file; a file that cannot be opened or read is not
\* told apart from one that is not JSON.
decompress_from_json_file(store, file, a, fail) ==
    LET loaded == JsonLoads(file)
        compressed_app == CompressedApplication(loaded.data)
        upserted == UpsertDocument(store, a, compressed_app.app, fail)
        json_string == JsonDumps(compressed_app.app)
    IN  IF ~loaded.ok \/ ~compressed_app.ok
        THEN [raised |-> FALSE, ok |-> FALSE, error |-> "ValidationError",
              store |-> store]
        ELSE [raised |-> FALSE, ok |-> TRUE, error |-> "",
              store |-> update_compressed_json(upserted, a, json_string,
                                               fail.update).store]

-----------------------------------------------------------------------------
(* Python strings.  A string is known to the model by its characters: the  *)
(* table lists every string the evaluator changes the case of or searches. *)

Chars(s) ==
    CASE s = "" -> <<>>
      [] s = "USD" -> <<"U", "S", "D">>
      [] s = "EUR" -> <<"E", "U", "R">>
      [] s = "GBP" -> <<"G", "B", "P">>
      [] s = "CAD" -> <<"C", "A", "D">>
      [] s = "INR" -> <<"I", "N", "R">>
      [] s = "XYZ" -> <<"X", "Y", "Z">>
      [] s = "eur" -> <<"e", "u", "r">>
      [] s = "Google" -> <<"G", "o", "o", "g", "l", "e">>
      [] s = "Meta" -> <<"M", "e", "t", "a">>
      [] s = "OpenAI" -> <<"O", "p", "e", "n", "A", "I">>
      [] s = "Microsoft" -> <<"M", "i", "c", "r", "o", "s", "o", "f", "t">>
      [] s = "Apple" -> <<"A", "p", "p", "l", "e">>
      [] s = "Amazon" -> <<"A", "m", "a", "z", "o", "n">>
      [] s = "Netflix" -> <<"N", "e", "t", "f", "l", "i", "x">>
      [] s = "US" -> <<"U", "S">>
      [] s = "Canada" -> <<"C", "a", "n", "a", "d", "a">>
      [] s = "UK" -> <<"U", "K">>
      [] s = "Germany" -> <<"G", "e", "r", "m", "a", "n", "y">>
      [] s = "India" -> <<"I", "n", "d", "i", "a">>
      [] s = "Google Inc" -> <<"G", "o", "o", "g", "l", "e", " ", "I", "n", "c">>
      [] s = "Acme" -> <<"A", "c", "m", "e">>
      [] s = "Initech" -> <<"I", "n", "i", "t", "e", "c", "h">>
      [] s = "Austin, US" -> <<"A", "u", "s", "t", "i", "n", ",", " ", "U", "S">>
      [] s = "Mars" -> <<"M", "a", "r", "s">>
      [] s = "None" -> <<"N", "o", "n", "e">>
      [] s = "none" -> <<"n", "o", "n", "e">>
      [] s = "No end date" -> <<"N", "o", " ", "e", "n", "d", " ", "d", "a", "t", "e">>
      [] s = "Gap, Rate" -> <<"G", "a", "p", ",", " ", "R", "a", "t", "e">>
      [] s = "Gap" -> <<"G", "a", "p">>
      [] s = "Rate" -> <<"R", "a", "t", "e">>
      [] s = "LLM response parsing failed" -> <<"L", "L", "M", " ", "r", "e", "s", "p", "o", "n", "s", "e", " ", "p", "a", "r", "s", "i", "n", "g", " ", "f", "a", "i", "l", "e", "d">>
      [] s = "toronto, canada" -> <<"t", "o", "r", "o", "n", "t", "o", ",", " ", "c", "a", "n", "a", "d", "a">>

UpperLetters ==
    <<"A", "B", "C", "D", "E", "F", "G", "H", "I", "J", "K", "L", "M", "N", "O", "P", "Q", "R", "S", "T", "U", "V", "W", "X", "Y", "Z">>
LowerLetters ==
    <<"a", "b", "c", "d", "e", "f", "g", "h", "i", "j", "k", "l", "m", "n", "o", "p", "q", "r", "s", "t", "u", "v", "w", "x", "y", "z">>

LowerChar(c) ==
    IF \E i \in DOMAIN UpperLetters : UpperLetters[i] = c
    THEN LowerLetters[CHOOSE i \in DOMAIN UpperLetters : UpperLetters[i] = c]
    ELSE c

UpperChar(c) ==
    IF \E i \in DOMAIN LowerLetters : LowerLetters[i] = c
    THEN UpperLetters[CHOOSE i \in DOMAIN LowerLetters : LowerLetters[i] = c]
    ELSE c

\* str.lower() and str.upper(), on the characters
Lower(cs) == [i \in DOMAIN cs |-> LowerChar(cs[i])]
Upper(cs) == [i \in DOMAIN cs |-> UpperChar(cs[i])]

\* needle in hay
Contains(hay, needle) ==
    \E i \in 0..(Len(hay) - Len(needle)) :
        SubSeq(hay, i + 1, i + Len(needle)) = needle

\* str.strip(), of blanks
RECURSIVE Strip(_)
Strip(cs) ==
    IF cs = <<>> THEN cs
    ELSE IF Head(cs) = " " THEN Strip(Tail(cs))
    ELSE IF cs[Len(cs)] = " " THEN Strip(SubSeq(cs, 1, Len(cs) - 1))
    ELSE cs

\* str.split(sep), sep one character: the pieces between its occurrences
RECURSIVE Split(_, _)
Split(cs, sep) ==
    IF \E i \in DOMAIN cs : cs[i] = sep
    THEN LET i == CHOOSE j \in DOMAIN cs :
                    cs[j] = sep /\ \A k \in 1..(j - 1) : cs[k] # sep
         IN  <<SubSeq(cs, 1, i - 1)>> \o Split(SubSeq(cs, i + 1, Len(cs)), sep)
    ELSE <<cs>>

-----------------------------------------------------------------------------
(* config.py: the shortlist criteria.                                      *)

TIER_1_COMPANIES ==
    {"Google", "Meta", "OpenAI", "Microsoft", "Apple", "Amazon", "Netflix"}
ELIGIBLE_LOCATIONS == {"US", "Canada", "UK", "Germany", "India"}
MAX_HOURLY_RATE == 100
MIN_AVAILABILITY_HOURS == 20
MIN_EXPERIENCE_YEARS == 4

-----------------------------------------------------------------------------
(* shortlist_automation.py: the shortlist evaluator.                       *)

\* calculate_experience_years(compressed_app.experience).  The entries it is
\* given are WorkExperience model objects; its loop starts with
\* exp.get('company', ''), and a pydantic model has no attribute get: the call
\* raises AttributeError on the first entry, which no handler inside the
\* function catches.  With no entry the loop does not run.
calculate_experience_years(experience_data) ==
    IF experience_data = <<>>
    THEN [raised |-> FALSE, total_years |-> 0, tier_1_experience |-> FALSE]
    ELSE [raised |-> TRUE, total_years |-> 0, tier_1_experience |-> FALSE]

\* conversion_rates.get(currency, 1.0), in thousandths
ConversionRate(currency) ==
    CASE currency = Chars("EUR") -> 1100
      [] currency = Chars("GBP") -> 1300
      [] currency = Chars("CAD") -> 750
      [] currency = Chars("INR") -> 12
      [] OTHER -> 1000

\* usd_rate, in thousandths of a dollar
UsdRate(preferred_rate, currency) ==
    IF currency # Chars("USD")
    THEN preferred_rate * ConversionRate(currency)
    ELSE preferred_rate * 1000

\* The criteria the except branch returns.
ErrorCriteria ==
    [experience_qualified |-> FALSE,
     compensation_qualified |-> FALSE,
     location_qualified |-> FALSE,
     total_years_experience |-> 0,
     tier_1_experience |-> FALSE,
     score_reason |-> <<"Error during evaluation">>]

\* The rationale, without the numbers it quotes.
ScoreReason(experience_qualified, tier_1_experience, compensation_qualified, location_qualified) ==
    << IF experience_qualified
       THEN (IF tier_1_experience THEN "Has tier-1 company experience"
             ELSE "Has years of experience")
       ELSE "Insufficient experience",
       IF compensation_qualified THEN "Rate and availability"
       ELSE "Rate too high or insufficient availability",
       IF location_qualified THEN "Located in" ELSE "Location not eligible" >>

\* The body of evaluate_applicant's try block: raised when an exception leaves
\* it.  fail: the read of the Applicant record raises.
EvaluateTry(store, a, fail) ==
    LET applicant_record == get_applicant_by_id(store, a)
        compressed_json == applicant_record.row.fields.CompressedJSON
        loaded == JsonLoads(compressed_json)
        compressed_app == CompressedApplication(loaded.data)
        app == compressed_app.app
        exp == calculate_experience_years(app.experience)
        experience_qualified ==
            (exp.total_years >= MIN_EXPERIENCE_YEARS) \/ exp.tier_1_experience
        preferred_rate == app.salary.preferred_rate.n
        availability == app.salary.availability_hours.n
        currency == Upper(Chars(app.salary.currency.s))
        usd_rate == UsdRate(preferred_rate, currency)
        compensation_qualified ==
            /\ usd_rate <= MAX_HOURLY_RATE * 1000
            /\ availability >= MIN_AVAILABILITY_HOURS
        location == Upper(Chars(app.personal.location.s))
        location_qualified ==
            \E eligible_loc \in ELIGIBLE_LOCATIONS :
                Contains(location, Upper(Chars(eligible_loc)))
    IN  IF \/ fail
           \/ ~applicant_record.found
           \/ compressed_json = NoJson
           \/ ~loaded.ok
           \/ ~compressed_app.ok
           \/ exp.raised
        THEN [raised |-> TRUE, criteria |-> ErrorCriteria]
        ELSE [raised |-> FALSE,
              criteria |->
                [experience_qualified |-> experience_qualified,
                 compensation_qualified |-> compensation_qualified,
                 location_qualified |-> location_qualified,
                 total_years_experience |-> exp.total_years,
                 tier_1_experience |-> exp.tier_1_experience,
                 score_reason |->
                    ScoreReason(experience_qualified, exp.tier_1_experience,
                                compensation_qualified, location_qualified)]]

\* evaluate_applicant without its except branch
evaluate_applicant_uncaught(store, a, fail) ==
    EvaluateTry(store, a, fail)

\* except Exception: the all-false criteria instead of the exception
evaluate_applicant(store, a, fail) ==
    LET body == EvaluateTry(store, a, fail)
    IN  IF body.raised
        THEN [raised |-> FALSE, criteria |-> ErrorCriteria]
        ELSE body

\* fail: which of the three remote calls raises, the read inside
\* evaluate_applicant ("evaluate"), the second read ("get") or the create.
ShortlistFail == {"none", "evaluate", "get", "create"}

shortlist_applicant(store, a, fail) ==
    LET criteria == evaluate_applicant(store, a, fail = "evaluate").criteria
        applicant_record == get_applicant_by_id(store, a)
        compressed_json == applicant_record.row.fields.CompressedJSON
        success ==
            create_shortlisted_lead(store, a, compressed_json,
                criteria.score_reason,
                fail = "create")
    IN  IF /\ criteria.experience_qualified
           /\ criteria.compensation_qualified
           /\ criteria.location_qualified
        THEN IF fail = "get" \/ ~applicant_record.found
             THEN [raised |-> FALSE, ok |-> FALSE, store |-> store]
             ELSE [raised |-> FALSE, ok |-> success.ok, store |-> success.store]
        ELSE [raised |-> FALSE, ok |-> FALSE, store |-> store]

-----------------------------------------------------------------------------
(* llm_evaluation.py: the LLM evaluator.  A response is the sequence of    *)
(* its lines after strip(); a line is its label ("Summary:", "Score:",      *)
(* "Issues:", "Follow-Ups:", or "text" for any other line) and the text     *)
(* after the label: Num(n) when it is text that int() reads as n, Str(s)   *)
(* otherwise.                                                              *)

\* max_retries, the default of evaluate_applicant_with_retry
MaxRetries == 3

\* f.strip().lstrip(BULLET).strip(); the bullet character is written "*" here
Unbullet(s) ==
    CASE s = "* Start date?" -> "Start date?"
      [] s = "* Ask about visa status" -> "Ask about visa status"
      [] OTHER -> s

\* '\n'.join(follow_ups)
RECURSIVE JoinLines(_)
JoinLines(lines) ==
    IF lines = <<>> THEN ""
    ELSE IF Len(lines) = 1 THEN lines[1]
    ELSE lines[1] \o "\n" \o JoinLines(Tail(lines))

\* What the loop of parse_llm_response has read after the lines given,
\* starting from acc.
RECURSIVE ParseLines(_, _)
ParseLines(lines, acc) ==
    IF lines = <<>> THEN acc
    ELSE LET line == Head(lines)
             next ==
                CASE line.label = "Summary:" ->
                        [acc EXCEPT !.summary = line.text.s]
                  [] line.label = "Score:" ->
                        [acc EXCEPT !.score =
                            IF line.text.t = "num" THEN line.text.n ELSE 5]
                  [] line.label = "Issues:" ->
                        IF Lower(Chars(line.text.s)) # Chars("none")
                        THEN [acc EXCEPT !.issues =
                                LET items == Split(Chars(line.text.s), ",")
                                IN  [i \in DOMAIN items |-> Strip(items[i])]]
                        ELSE acc
                  [] line.label = "Follow-Ups:" ->
                        IF line.text.s # ""
                        THEN [acc EXCEPT !.follow_ups = <<Unbullet(line.text.s)>>]
                        ELSE acc
                  [] OTHER -> acc
         IN  ParseLines(Tail(lines), next)

\* LLMEvaluation(...): score must lie in 1..10
ValidEvaluation(e) == e.score >= 1 /\ e.score <= 10

\* The evaluation the except branch of parse_llm_response returns.
ParseFallback ==
    [summary |-> "Error parsing LLM response", score |-> 5,
     issues |-> <<Chars("LLM response parsing failed")>>,
     follow_ups |-> <<"Please manually review this applicant">>]

\* variant: an empty summary is returned as it is
parse_llm_response_nosummary(response) ==
    LET evaluation ==
            ParseLines(response,
                [summary |-> "", score |-> 5, issues |-> <<>>,
                 follow_ups |-> <<>>])
    IN  IF ValidEvaluation(evaluation) THEN evaluation ELSE ParseFallback

parse_llm_response(response) ==
    LET read == ParseLines(response,
                    [summary |-> "", score |-> 5, issues |-> <<>>,
                     follow_ups |-> <<>>])
        evaluation ==
            [read EXCEPT !.summary =
                IF @ = "" THEN "No summary provided" ELSE @]
    IN  IF ValidEvaluation(evaluation) THEN evaluation ELSE ParseFallback

\* 2 ** attempt
RECURSIVE Pow2(_)
Pow2(n) == IF n = 0 THEN 1 ELSE 2 * Pow2(n - 1)

\* The seconds slept in all after `failed` attempts have raised: 2 ** i after
\* failed attempt i (counted from 0), none after the last attempt allowed.
RECURSIVE Slept(_)
Slept(failed) ==
    IF failed = 0 THEN 0
    ELSE Slept(failed - 1)
            + (IF failed - 1 < MaxRetries - 1 THEN Pow2(failed - 1) ELSE 0)

\* What one call of the remote model does: it raises, or answers.
Raises == [raises |-> TRUE]
Answers(response) == [raises |-> FALSE, response |-> response]

\* A slip: the first failed call ends the loop.
RECURSIVE RetryLoop_giveup(_, _, _)
RetryLoop_giveup(outcomes, attempt, max_retries) ==
    IF attempt >= max_retries
    THEN [found |-> FALSE, calls |-> <<>>, slept |-> 0, waits |-> <<>>]
    ELSE IF ~outcomes[attempt + 1].raises
    THEN [found |-> TRUE, calls |-> <<outcomes[attempt + 1]>>, slept |-> 0, waits |-> <<>>,
          evaluation |-> parse_llm_response(outcomes[attempt + 1].response)]
    ELSE [found |-> FALSE, calls |-> <<outcomes[attempt + 1]>>, slept |-> 0, waits |-> <<>>]

\* variant: the loop sleeps after the last failed call as well
RECURSIVE RetryLoop_sleeplast(_, _, _)
RetryLoop_sleeplast(outcomes, attempt, max_retries) ==
    IF attempt >= max_retries
    THEN [found |-> FALSE, calls |-> <<>>, slept |-> 0, waits |-> <<>>]
    ELSE IF ~outcomes[attempt + 1].raises
    THEN [found |-> TRUE, calls |-> <<outcomes[attempt + 1]>>, slept |-> 0, waits |-> <<>>,
          evaluation |-> parse_llm_response(outcomes[attempt + 1].response)]
    ELSE LET rest == RetryLoop_sleeplast(outcomes, attempt + 1, max_retries)
         IN  [rest EXCEPT !.calls = <<outcomes[attempt + 1]>> \o @,
                          !.slept = Pow2(attempt) + @,
                          !.waits = <<Pow2(attempt)>> \o @]

\* for attempt in range(max_retries), from `attempt` on; outcomes[i] is what
\* the i-th call of the remote model does, if it is made.  calls: the calls
\* made, in order; waits: the seconds of each time.sleep, in order; slept:
\* their sum.
RECURSIVE RetryLoop(_, _, _)
RetryLoop(outcomes, attempt, max_retries) ==
    IF attempt >= max_retries
    THEN [found |-> FALSE, calls |-> <<>>, slept |-> 0, waits |-> <<>>]
    ELSE IF ~outcomes[attempt + 1].raises
    THEN [found |-> TRUE, calls |-> <<outcomes[attempt + 1]>>, slept |-> 0, waits |-> <<>>,
          evaluation |-> parse_llm_response(outcomes[attempt + 1].response)]
    ELSE IF attempt < max_retries - 1
    THEN LET rest == RetryLoop(outcomes, attempt + 1, max_retries)
         IN  [rest EXCEPT !.calls = <<outcomes[attempt + 1]>> \o @,
                          !.slept = Pow2(attempt) + @,
                          !.waits = <<Pow2(attempt)>> \o @]
    ELSE [found |-> FALSE, calls |-> <<outcomes[attempt + 1]>>, slept |-> 0, waits |-> <<>>]

\* evaluate_applicant_with_retry(applicant_id, max_retries).  failGet: the
\* read of the Applicant record raises.
EvaluateWithRetry(store, a, failGet, max_retries, outcomes) ==
    LET applicant_record == get_applicant_by_id(store, a)
        compressed_json == applicant_record.row.fields.CompressedJSON
        None == [found |-> FALSE, calls |-> <<>>, slept |-> 0, waits |-> <<>>]
    IN  IF failGet THEN None
        ELSE IF ~applicant_record.found THEN None
        ELSE IF compressed_json = NoJson THEN None
        ELSE RetryLoop(outcomes, 0, max_retries)

\* evaluate_applicant_with_retry(applicant_id), max_retries left at its
\* default.  failed: the number of calls that raise before one answers with
\* `response`; MaxRetries when none answers.
evaluate_applicant_with_retry(store, a, failGet, failed, response) ==
    LET outcomes ==
            [i \in 1..MaxRetries |->
                IF i <= failed THEN Raises ELSE Answers(response)]
        r == EvaluateWithRetry(store, a, failGet, MaxRetries, outcomes)
    IN  IF r.found
        THEN [found |-> TRUE, attempts |-> Len(r.calls), slept |-> r.slept,
              evaluation |-> r.evaluation]
        ELSE [found |-> FALSE, attempts |-> Len(r.calls), slept |-> r.slept]

update_llm_evaluation(store, a, summary, score, follow_ups, fail) ==
    LET applicant_record == get_applicant_by_id(store, a)
    IN  IF fail THEN [ok |-> FALSE, store |-> store]
        ELSE IF ~applicant_record.found THEN [ok |-> FALSE, store |-> store]
        ELSE [ok |-> TRUE,
              store |-> [store EXCEPT !.applicants =
                  TableUpdate(@, applicant_record.row.id,
                      [LLMSummary |-> Str(summary), LLMScore |-> Num(score),
                       LLMFollowUps |-> Str(follow_ups)])]]

\* fail: the remote store call that raises, the read inside
\* evaluate_applicant_with_retry ("get") or one inside update_llm_evaluation
\* ("update").
LlmFail == {"none", "get", "update"}

update_applicant_evaluation(store, a, fail, failed, response) ==
    LET evaluation ==
            evaluate_applicant_with_retry(store, a, fail = "get", failed, response)
        success ==
            update_llm_evaluation(store, a, evaluation.evaluation.summary,
                evaluation.evaluation.score,
                JoinLines(evaluation.evaluation.follow_ups), fail = "update")
    IN  IF evaluation.found
        THEN [raised |-> FALSE, ok |-> success.ok, store |-> success.store,
              attempts |-> evaluation.attempts, slept |-> evaluation.slept]
        ELSE [raised |-> FALSE, ok |-> FALSE, store |-> store,
              attempts |-> evaluation.attempts, slept |-> evaluation.slept]

-----------------------------------------------------------------------------
(* The documents and rows the model draws its inputs from.                 *)

PersonalAnn ==
    [full_name |-> Str("Ann"), email |-> Str("ann@x.org"),
     location |-> Str("Austin, US"), linkedin |-> Str("in/ann")]
PersonalBob ==
    [full_name |-> Str("Bob"), email |-> Str("bob@x.org"),
     location |-> Str("Mars"), linkedin |-> Null]

ExpGoogle ==
    [company |-> Str("Google Inc"), title |-> Str("SWE"),
     start_date |-> Str("2024-01-01"), end_date |-> Str("2024-01-01"),
     technologies |-> Str("Go")]
ExpAcme ==
    [company |-> Str("Acme"), title |-> Str("Dev"),
     start_date |-> Str("2016-01-01"), end_date |-> Str("2020-01-01"),
     technologies |-> Str("SQL")]
ExpInitech ==
    [company |-> Str("Initech"), title |-> Str("Ops"),
     start_date |-> Str("2016-01-01"), end_date |-> Null,
     technologies |-> Null]

SalaryEur ==
    [preferred_rate |-> Num(90), minimum_rate |-> Num(70),
     currency |-> Str("EUR"), availability_hours |-> Num(40)]
SalaryUsd ==
    [preferred_rate |-> Num(120), minimum_rate |-> Num(100),
     currency |-> Str("USD"), availability_hours |-> Num(10)]

\* every optional field a string
DocFull ==
    [personal |-> PersonalAnn, experience |-> <<ExpGoogle, ExpAcme>>,
     salary |-> SalaryEur]
\* optional fields null
DocSparse ==
    [personal |-> PersonalBob, experience |-> <<ExpInitech>>,
     salary |-> SalaryUsd]
\* optional fields left out
DocBare ==
    [personal |-> [PersonalBob EXCEPT !.linkedin = Absent],
     experience |-> <<>>, salary |-> SalaryEur]
\* a required field missing
DocInvalid == [DocFull EXCEPT !.personal.email = Absent]

\* The texts an Applicant record holds at the start.
InitTexts ==
    {NoJson, Malformed, JsonDumps(DocFull), JsonDumps(DocSparse),
     JsonDumps(DocInvalid)}

\* The texts of the files given to decompress_from_json_file.
Files == {Malformed, JsonDumps(DocFull), JsonDumps(DocBare), JsonDumps(DocInvalid)}

\* The arguments of the direct upserts.
PersonalInputs == {PersonalData(ModelOf(DocFull)), PersonalData(ModelOf(DocSparse))}
ExperienceInputs ==
    {<<>>, ExperienceData(ModelOf(DocFull)), ExperienceData(ModelOf(DocSparse))}
SalaryInputs == {SalaryData(ModelOf(DocFull)), SalaryData(ModelOf(DocSparse))}

\* Rows a store may hold that this system did not write: fields missing, or of
\* a type the schema rejects.
PersonalSparse ==
    [FullName |-> Absent, Email |-> Str("bob@x.org"), Location |-> Absent,
     LinkedIn |-> Absent]
PersonalBad == [PersonalData(ModelOf(DocSparse)) EXCEPT !.Email = Obj]
WorkSparse ==
    [Company |-> Str("Acme"), Title |-> Absent, Start |-> Str("2016-01-01"),
     End |-> Absent, Technologies |-> Absent]
SalarySparse ==
    [PreferredRate |-> Absent, MinimumRate |-> Absent, Currency |-> Absent,
     Availability |-> Absent]

ApplicantRow(id, a, json) ==
    [id |-> id, aid |-> a,
     fields |-> [CompressedJSON |-> json, LLMSummary |-> Absent,
                 LLMScore |-> Absent, LLMFollowUps |-> Absent]]
Row(id, a, fields) == [id |-> id, aid |-> a, fields |-> fields]

\* The applicant the operations are run for, and a bystander.
Subject == "a1"
Other == "a2"

OtherApplicant == <<ApplicantRow(1, Other, JsonDumps(DocSparse))>>
OtherPersonal == <<Row(1, Other, PersonalData(ModelOf(DocFull)))>>
OtherWork == <<Row(2, Other, ExperienceData(ModelOf(DocFull))[2])>>
OtherSalary == <<Row(1, Other, SalaryData(ModelOf(DocFull)))>>

\* The linked rows of the subject at the start.
Scenarios == {"empty", "full", "sparse", "bad", "nosalary"}

SubjectPersonal(sc) ==
    CASE sc = "empty" -> <<>>
      [] sc = "sparse" -> <<Row(2, Subject, PersonalSparse)>>
      [] sc = "bad" -> <<Row(2, Subject, PersonalBad)>>
      [] OTHER -> <<Row(2, Subject, PersonalData(ModelOf(DocSparse)))>>

SubjectSalary(sc) ==
    CASE sc \in {"empty", "nosalary"} -> <<>>
      [] sc = "sparse" -> <<Row(2, Subject, SalarySparse)>>
      [] OTHER -> <<Row(2, Subject, SalaryData(ModelOf(DocSparse)))>>

\* The subject's rows lie on both sides of the bystander's.
InitWork(sc) ==
    CASE sc \in {"full", "nosalary"} ->
            <<Row(1, Subject, ExperienceData(ModelOf(DocSparse))[1])>>
            \o OtherWork \o <<Row(3, Subject, WorkSparse)>>
      [] sc = "sparse" -> OtherWork \o <<Row(3, Subject, WorkSparse)>>
      [] OTHER -> OtherWork

Idle == [pc |-> "idle"]
NoOp ==
    [op |-> "none", a |-> "", arg |-> <<>>, raised |-> FALSE, ok |-> FALSE,
     clean |-> TRUE, prev |-> "none", rep |-> FALSE, out |-> <<>>]

InitStore(hasRecord, text, sc) ==
    /\ applicants = OtherApplicant
            \o (IF hasRecord THEN <<ApplicantRow(2, Subject, text)>> ELSE <<>>)
    /\ personalDetails = OtherPersonal \o SubjectPersonal(sc)
    /\ workExperience = InitWork(sc)
    /\ salaryPreferences = OtherSalary \o SubjectSalary(sc)
    /\ shortlistedLeads = <<>>
    /\ lastOp = NoOp
    /\ batch = Idle
    /\ failures = 0

Init ==
    \E hasRecord \in BOOLEAN, text \in InitTexts, sc \in Scenarios :
        /\ hasRecord \/ text = NoJson
        /\ InitStore(hasRecord, text, sc)

-----------------------------------------------------------------------------
(* The operations.  Each action is one call of a public operation, with    *)
(* the remote failures it meets; lastOp records the call and its outcome.  *)

\* The five tables.
Tables ==
    <<applicants, personalDetails, workExperience, salaryPreferences,
      shortlistedLeads>>

\* n more remote calls raise.
Failing(n) ==
    /\ failures + n <= MaxFailures
    /\ failures' = failures + n

Count(b) == IF b THEN 1 ELSE 0

FailCount(fail) ==
    Count(fail.get) + Count(fail.personal) + Count(fail.work # 0)
        + Count(fail.salary) + Count(fail.update)

SetStore(store) ==
    /\ applicants' = store.applicants
    /\ personalDetails' = store.personal
    /\ workExperience' = store.work
    /\ salaryPreferences' = store.salary
    /\ shortlistedLeads' = store.leads

\* The call and its outcome: raised (an exception reached the caller), ok (it
\* reported success), clean (no remote call of it raised), out (what else it
\* returned).  prev is the operation called just before for the same applicant
\* when that call was clean and reported success, and rep tells that it was
\* this very call, arguments included.
Done(op, a, arg, raised, ok, clean, out) ==
    lastOp' =
        [op |-> op, a |-> a, arg |-> arg, raised |-> raised, ok |-> ok,
         clean |-> clean,
         prev |-> IF lastOp.clean /\ lastOp.ok /\ lastOp.a = a
                  THEN lastOp.op ELSE "none",
         rep |-> lastOp.clean /\ lastOp.ok /\ lastOp.a = a /\ lastOp.op = op
                    /\ lastOp.arg = arg,
         out |-> out]

Compress(a) ==
    \E fail \in CompressFail :
        /\ Failing(Count(fail # "none"))
        /\ \E r \in {compress_applicant_data(TheStore, a, fail)} :
               /\ SetStore(r.store)
               /\ Done("compress", a, <<>>, r.raised, ~r.raised, fail = "none", r.error)
               /\ UNCHANGED batch

\* The failures a decompression of document text `text` for applicant a can
\* meet, one choice for each remote call that it makes.
DecompressFails(store, a, text, fromFile) ==
    LET loaded == JsonLoads(text)
        compressed_app == CompressedApplication(loaded.data)
        valid == loaded.ok /\ compressed_app.ok
        calls == IF valid
                 THEN WorkCalls(store, a, ExperienceData(compressed_app.app))
                 ELSE 0
    IN  (IF fromFile THEN {} ELSE {[NoFail EXCEPT !.get = TRUE]})
        \cup
        (IF valid
         THEN [get : {FALSE}, personal : BOOLEAN, work : 0..calls,
               salary : BOOLEAN, update : IF fromFile THEN BOOLEAN ELSE {FALSE}]
         ELSE {NoFail})

StoredText(store, a) ==
    LET applicant_record == get_applicant_by_id(store, a)
    IN  IF applicant_record.found
        THEN applicant_record.row.fields.CompressedJSON
        ELSE NoJson

Decompress(a) ==
    \E fail \in DecompressFails(TheStore, a, StoredText(TheStore, a), FALSE) :
        /\ Failing(FailCount(fail))
        /\ \E r \in {decompress_applicant_data(TheStore, a, fail)} :
               /\ SetStore(r.store)
               /\ Done("decompress", a, <<>>, r.raised, r.ok, fail = NoFail, <<>>)
               /\ UNCHANGED batch

DecompressFromFile(a) ==
    \E file \in Files :
        \E fail \in DecompressFails(TheStore, a, file, TRUE) :
            /\ Failing(FailCount(fail))
            /\ \E r \in {decompress_from_json_file(TheStore, file, a, fail)} :
                   /\ SetStore(r.store)
                   /\ Done("decompress_file", a, file, r.raised, r.ok,
                           fail = NoFail, <<>>)
                   /\ UNCHANGED batch

UpsertPersonalDetails(a) ==
    \E personal_data \in PersonalInputs, fail \in BOOLEAN :
        /\ Failing(Count(fail))
        /\ \E r \in {upsert_personal_details(TheStore, a, personal_data, fail)} :
               /\ SetStore(r.store)
               /\ Done("upsert_personal_details", a, personal_data, FALSE, r.ok,
                       ~fail, <<>>)
               /\ UNCHANGED batch

UpsertWorkExperience(a) ==
    \E experience_data \in ExperienceInputs :
        \E failAt \in 0..WorkCalls(TheStore, a, experience_data) :
            /\ Failing(Count(failAt # 0))
            /\ \E r \in {upsert_work_experience(TheStore, a, experience_data, failAt)} :
                   /\ SetStore(r.store)
                   /\ Done("upsert_work_experience", a, experience_data, FALSE,
                           r.ok, failAt = 0, <<>>)
                   /\ UNCHANGED batch

UpsertSalaryPreferences(a) ==
    \E salary_data \in SalaryInputs, fail \in BOOLEAN :
        /\ Failing(Count(fail))
        /\ \E r \in {upsert_salary_preferences(TheStore, a, salary_data, fail)} :
               /\ SetStore(r.store)
               /\ Done("upsert_salary_preferences", a, salary_data, FALSE, r.ok,
                       ~fail, <<>>)
               /\ UNCHANGED batch

\* The compressor and the decompressor, run for the subject in any order.
Next ==
    \/ Compress(Subject)
    \/ Decompress(Subject)
    \/ DecompressFromFile(Subject)

Spec == Init /\ [][Next]_vars

\* The gateway's upserts, called directly.
InitUpsert == \E sc \in Scenarios : InitStore(TRUE, NoJson, sc)

NextUpsert ==
    \/ UpsertPersonalDetails(Subject)
    \/ UpsertWorkExperience(Subject)
    \/ UpsertSalaryPreferences(Subject)

SpecUpsert == InitUpsert /\ [][NextUpsert]_vars

\* The compressor, the decompressor and the gateway's two one-record upserts,
\* run for the subject in any order.  The subject starts with a record in
\* both tables, in PersonalDetails only, or in neither.
InitStoreOps ==
    \E text \in {NoJson, JsonDumps(DocFull)}, sc \in {"empty", "nosalary", "full"} :
        InitStore(TRUE, text, sc)

NextStore ==
    \/ Compress(Subject)
    \/ Decompress(Subject)
    \/ DecompressFromFile(Subject)
    \/ UpsertPersonalDetails(Subject)
    \/ UpsertSalaryPreferences(Subject)

SpecStore == InitStoreOps /\ [][NextStore]_vars

-----------------------------------------------------------------------------
(* The shortlist evaluator run on its own: one stored document, evaluated   *)
(* and shortlisted in any order.                                           *)

\* The experience lists of the documents are at most this long.
MaxExperience == 2

ExpShort ==
    [company |-> Str("Acme"), title |-> Str("Dev"),
     start_date |-> Str("2016-01-02"), end_date |-> Str("2020-01-01"),
     technologies |-> Str("SQL")]
ExpPresent ==
    [company |-> Str("Initech"), title |-> Str("Ops"),
     start_date |-> Str("2024-01-01"), end_date |-> Str("Present"),
     technologies |-> Null]
ExpUndated ==
    [company |-> Str("Acme"), title |-> Str("Dev"),
     start_date |-> Str("n/a"), end_date |-> Str("2020-01-01"),
     technologies |-> Null]

EvalEntries == {ExpGoogle, ExpAcme, ExpShort, ExpInitech, ExpPresent, ExpUndated}

PersonalCyd ==
    [full_name |-> Str("Cyd"), email |-> Str("cyd@x.org"),
     location |-> Str("toronto, canada"), linkedin |-> Null]

EvalPersonal == {PersonalAnn, PersonalBob, PersonalCyd}

Salary(rate, currency, hours) ==
    [preferred_rate |-> Num(rate), minimum_rate |-> Num(50),
     currency |-> Str(currency), availability_hours |-> Num(hours)]

EvalSalaries ==
    {SalaryEur, SalaryUsd, Salary(95, "XYZ", 20), Salary(100, "USD", 19),
     Salary(77, "GBP", 20), Salary(91, "eur", 40)}

ExperienceLists == UNION {[1..n -> EvalEntries] : n \in 0..MaxExperience}

EvalDocs ==
    [personal : EvalPersonal, experience : ExperienceLists, salary : EvalSalaries]

EvalTexts ==
    {NoJson, Malformed, JsonDumps(DocInvalid)} \cup {JsonDumps(d) : d \in EvalDocs}

InitEval ==
    \E hasRecord \in BOOLEAN, text \in EvalTexts :
        /\ hasRecord \/ text = NoJson
        /\ InitStore(hasRecord, text, "full")

Evaluate(a) ==
    \E fail \in BOOLEAN :
        /\ Failing(Count(fail))
        /\ \E r \in {evaluate_applicant(TheStore, a, fail)} :
               /\ Done("evaluate", a, <<>>, r.raised, ~r.raised, ~fail, r.criteria)
               /\ UNCHANGED <<Tables, batch>>

\* The remote calls shortlist_applicant makes: the read inside
\* evaluate_applicant, and the second read and the create only when the
\* criteria all hold.
ShortlistFails(store, a) ==
    LET criteria == evaluate_applicant(store, a, FALSE).criteria
    IN  IF /\ criteria.experience_qualified
           /\ criteria.compensation_qualified
           /\ criteria.location_qualified
        THEN ShortlistFail
        ELSE {"none", "evaluate"}

Shortlist(a) ==
    \E fail \in ShortlistFails(TheStore, a) :
        /\ Failing(Count(fail # "none"))
        /\ \E r \in {shortlist_applicant(TheStore, a, fail)} :
               /\ SetStore(r.store)
               /\ Done("shortlist", a, <<>>, r.raised, r.ok, fail = "none", <<>>)
               /\ UNCHANGED batch

NextEval ==
    \/ Evaluate(Subject)
    \/ Shortlist(Subject)

SpecEval == InitEval /\ [][NextEval]_vars

-----------------------------------------------------------------------------
(* The per-applicant operations run for one applicant in any order.        *)

Line(label, text) == [label |-> label, text |-> text]

ResponseGood ==
    <<Line("Summary:", Str("Strong")), Line("Score:", Num(8)),
      Line("Issues:", Str("None")), Line("Follow-Ups:", Str("* Start date?"))>>
\* no summary, a score that is not an integer
ResponseVague ==
    <<Line("text", Str("Hello")), Line("Score:", Str("high")),
      Line("Issues:", Str("No end date")), Line("Follow-Ups:", Str(""))>>
\* a score outside 1..10
ResponseOutOfRange ==
    <<Line("Summary:", Str("Strong")), Line("Score:", Num(12))>>

Responses == {ResponseGood, ResponseVague, ResponseOutOfRange}

\* The inputs of one update_applicant_evaluation: which remote store call
\* raises (the update is reached only when an evaluation came back), how many
\* LLM calls raise, and the response of the one that answers.  Without a
\* stored document the LLM is not called; when the update raises the response
\* is lost, whatever it was.
LlmInputs(store, a) ==
    LET NoCall == [failed |-> 0, response |-> ResponseGood]
    IN  IF evaluate_applicant_with_retry(store, a, FALSE, 0, ResponseGood).found
        THEN [fail : {"get"}, llm : {NoCall}]
             \cup [fail : {"none"}, llm : {[NoCall EXCEPT !.failed = MaxRetries]}]
             \cup [fail : {"none"},
                   llm : [failed : 0..(MaxRetries - 1), response : Responses]]
             \cup [fail : {"update"},
                   llm : [failed : 0..(MaxRetries - 1), response : {ResponseGood}]]
        ELSE [fail : {"none", "get"}, llm : {NoCall}]

UpdateEvaluation(a) ==
    \E in \in LlmInputs(TheStore, a) :
        /\ Failing(Count(in.fail # "none"))
        /\ \E r \in {update_applicant_evaluation(TheStore, a, in.fail,
                                                 in.llm.failed, in.llm.response)} :
               /\ SetStore(r.store)
               /\ Done("update_evaluation", a, <<>>, r.raised, r.ok,
                       in.fail = "none",
                       [attempts |-> r.attempts, slept |-> r.slept])
               /\ UNCHANGED batch

InitOps ==
    \E hasRecord \in BOOLEAN,
       text \in {NoJson, JsonDumps(DocFull), JsonDumps(DocInvalid)},
       sc \in {"empty", "full", "bad"} :
        /\ hasRecord \/ (text = NoJson /\ sc = "full")
        /\ InitStore(hasRecord, text, sc)

NextOps ==
    \/ Compress(Subject)
    \/ Decompress(Subject)
    \/ DecompressFromFile(Subject)
    \/ Shortlist(Subject)
    \/ UpdateEvaluation(Subject)

SpecOps == InitOps /\ [][NextOps]_vars

-----------------------------------------------------------------------------
(* The operations that run while the Shortlisted Leads table fills: the    *)
(* gateway's create_shortlisted_lead called for the subject, between       *)
(* compressions, decompressions, shortlistings and LLM evaluations of the  *)
(* subject.                                                                *)

\* the leads the table holds at most
MaxLeads == 2

CreateShortlistedLead(a) ==
    \E fail \in BOOLEAN :
        /\ Len(shortlistedLeads) < MaxLeads
        /\ Failing(Count(fail))
        /\ \E r \in {create_shortlisted_lead(TheStore, a, StoredText(TheStore, a),
                        evaluate_applicant(TheStore, a, FALSE).criteria.score_reason,
                        fail)} :
               /\ SetStore(r.store)
               /\ Done("create_shortlisted_lead", a, <<>>, FALSE, r.ok, ~fail, <<>>)
               /\ UNCHANGED batch

\* update_applicant_evaluation with an LLM that answers at once, or not at
\* all
UpdateEvaluationAnswered(a) ==
    \E fail \in {"none", "get", "update"}, failed \in {0, MaxRetries} :
        /\ Failing(Count(fail # "none"))
        /\ \E r \in {update_applicant_evaluation(TheStore, a, fail, failed,
                                                 ResponseGood)} :
               /\ SetStore(r.store)
               /\ Done("update_evaluation", a, <<>>, r.raised, r.ok,
                       fail = "none",
                       [attempts |-> r.attempts, slept |-> r.slept])
               /\ UNCHANGED batch

InitLeads == InitStore(TRUE, JsonDumps(DocFull), "full")

NextLeads ==
    \/ Compress(Subject)
    \/ Decompress(Subject)
    \/ Shortlist(Subject)
    \/ UpdateEvaluationAnswered(Subject)
    \/ CreateShortlistedLead(Subject)

SpecLeads == InitLeads /\ [][NextLeads]_vars

-----------------------------------------------------------------------------
(* compress_all_applicants and decompress_all_applicants: the listing of    *)
(* the Applicants table, then one applicant after the other.  batch holds   *)
(* the position of the loop: the rows still to visit, the result map, the   *)
(* applicants the operation was called for (processed) and those whose call *)
(* met a remote failure that the operation reports (hit).                   *)

Third == "a3"
BatchIds == {Subject, Other, Third}

\* The value of an applicant not (yet) in the result map, and a boolean in it.
Unprocessed == [k |-> "unprocessed"]
BoolResult(b) == [k |-> "bool", v |-> b]

\* The body of compress_all_applicants' loop without its try/except.
compress_all_step_uncaught(store, a, fail) ==
    LET r == compress_applicant_data(store, a, fail)
    IN  [raised |-> r.raised, result |-> r.value, store |-> r.store]

\* The body of compress_all_applicants' loop for an applicant with an ID: the
\* JSON text, or None when compress_applicant_data raises.
compress_all_step(store, a, fail) ==
    LET r == compress_applicant_data(store, a, fail)
    IN  IF r.raised
        THEN [raised |-> FALSE, result |-> NoJson, store |-> r.store]
        ELSE [raised |-> FALSE, result |-> r.value, store |-> r.store]

\* The body of decompress_all_applicants' loop, which has no try/except.
decompress_all_step(store, a, fail) ==
    LET r == decompress_applicant_data(store, a, fail)
    IN  [raised |-> r.raised, result |-> BoolResult(r.ok), store |-> r.store]

\* all_applicants: the Applicant ID of every row, '' for a row without one
Listing(store) == [i \in DOMAIN store.applicants |-> store.applicants[i].aid]

\* applicants_table.all() is called outside any try: when it raises, so does
\* the batch.
BatchStart(kind) ==
    /\ batch.pc \in {"idle", "done", "raised"}
    /\ \E fail \in BOOLEAN :
        /\ Failing(Count(fail))
        /\ batch' =
            IF fail
            THEN [pc |-> "raised", kind |-> kind, listed |-> FALSE]
            ELSE [pc |-> "running", kind |-> kind, listed |-> TRUE,
                  listing |-> Listing(TheStore), queue |-> Listing(TheStore),
                  results |-> [a \in BatchIds |-> Unprocessed],
                  processed |-> <<>>, hit |-> {}]
    /\ UNCHANGED <<Tables, lastOp>>

\* What one turn of the loop leaves in batch.
Visited(a, r, hit) ==
    IF r.raised
    THEN [pc |-> "raised", kind |-> batch.kind, listed |-> TRUE]
    ELSE [batch EXCEPT !.queue = Tail(@),
                       !.results[a] = r.result,
                       !.processed = Append(@, a),
                       !.hit = IF hit THEN @ \cup {a} ELSE @]

\* One turn of the loop: a row without an Applicant ID is passed over.
BatchStep ==
    /\ batch.pc = "running"
    /\ batch.queue # <<>>
    /\ LET a == Head(batch.queue)
       IN  IF a = ""
           THEN /\ batch' = [batch EXCEPT !.queue = Tail(@)]
                /\ UNCHANGED <<Tables, failures>>
           ELSE IF batch.kind = "compress"
           THEN \E fail \in CompressFail :
                    /\ Failing(Count(fail # "none"))
                    /\ \E r \in {compress_all_step(TheStore, a, fail)} :
                           /\ SetStore(r.store)
                           /\ batch' = Visited(a, r, fail # "none")
           ELSE \E fail \in DecompressFails(TheStore, a, StoredText(TheStore, a), FALSE) :
                    /\ Failing(FailCount(fail))
                    /\ \E r \in {decompress_all_step(TheStore, a, fail)} :
                           /\ SetStore(r.store)
                           /\ batch' = Visited(a, r, fail.get)
    /\ UNCHANGED lastOp

\* return results
BatchReturn ==
    /\ batch.pc = "running"
    /\ batch.queue = <<>>
    /\ batch' = [batch EXCEPT !.pc = "done"]
    /\ UNCHANGED <<Tables, lastOp, failures>>

\* The third applicant's rows are complete and its stored document valid; the
\* second's are so or not; a row without an Applicant ID lies between them.
InitBatch ==
    \E text \in {NoJson, JsonDumps(DocFull), JsonDumps(DocInvalid)},
       sc \in {"empty", "full", "bad"},
       otherText \in {Malformed, JsonDumps(DocSparse)},
       otherSalary \in {<<>>, OtherSalary} :
        /\ applicants =
              <<ApplicantRow(1, Other, otherText), ApplicantRow(2, Subject, text),
                ApplicantRow(3, "", NoJson),
                ApplicantRow(4, Third, JsonDumps(DocBare))>>
        /\ personalDetails =
              OtherPersonal \o SubjectPersonal(sc)
                \o <<Row(3, Third, PersonalData(ModelOf(DocFull)))>>
        /\ workExperience = InitWork(sc)
        /\ salaryPreferences =
              otherSalary \o SubjectSalary(sc)
                \o <<Row(3, Third, SalaryData(ModelOf(DocFull)))>>
        /\ shortlistedLeads = <<>>
        /\ lastOp = NoOp
        /\ batch = Idle
        /\ failures = 0

NextBatch ==
    \/ BatchStart("compress")
    \/ BatchStart("decompress")
    \/ BatchStep
    \/ BatchReturn

SpecBatch == InitBatch /\ [][NextBatch]_vars

-----------------------------------------------------------------------------
(* The LLM evaluator run on its own: replies parsed, and the retry loop    *)
(* run against calls of the remote model that raise or answer.             *)

ResponseGarbled == <<Line("text", Str("garbled text"))>>

\* The replies with one line for each label.
WellFormed ==
    {<<Line("Summary:", Str(summary)), Line("Score:", score),
       Line("Issues:", Str(issues)), Line("Follow-Ups:", Str(follow_ups))>> :
        summary \in {"Good candidate", ""},
        score \in {Num(n) : n \in {-3, 0, 1, 8, 10, 15}} \cup {Str("high")},
        issues \in {"None", "none", "Gap, Rate"},
        follow_ups \in {"", "* Ask about visa status"}}

\* Replies whose follow-up questions are a bullet list: one bullet on each
\* line after the label, the first of them on the label's line or not.
ResponseBullets ==
    <<Line("Summary:", Str("Good candidate")), Line("Score:", Num(8)),
      Line("Issues:", Str("None")), Line("Follow-Ups:", Str("")),
      Line("text", Str("* Ask about visa status")),
      Line("text", Str("* Start date?"))>>
ResponseBulletsFromLabel ==
    <<Line("Summary:", Str("Good candidate")), Line("Score:", Num(8)),
      Line("Issues:", Str("None")),
      Line("Follow-Ups:", Str("* Ask about visa status")),
      Line("text", Str("* Start date?"))>>

BulletLists == {ResponseBullets, ResponseBulletsFromLabel}

Replies ==
    WellFormed \cup BulletLists
    \cup {ResponseGarbled, ResponseGood, ResponseVague, ResponseOutOfRange}

Outcomes == {Raises, Answers(ResponseGood), Answers(ResponseOutOfRange)}

ParseResponse ==
    \E response \in Replies :
        /\ Done("parse", "", response, FALSE, TRUE, TRUE,
                parse_llm_response(response))
        /\ UNCHANGED <<Tables, batch, failures>>

RetryEvaluate(a) ==
    \E max_retries \in 0..MaxRetries, failGet \in BOOLEAN :
        \E outcomes \in [1..max_retries -> Outcomes] :
            /\ Failing(Count(failGet))
            /\ \E r \in {EvaluateWithRetry(TheStore, a, failGet, max_retries,
                                           outcomes)} :
                   /\ Done("retry", a,
                           [max_retries |-> max_retries, outcomes |-> outcomes],
                           FALSE, r.found, ~failGet, r)
                   /\ UNCHANGED <<Tables, batch>>

InitLlm ==
    \E hasRecord \in BOOLEAN, text \in {NoJson, JsonDumps(DocFull)} :
        /\ hasRecord \/ text = NoJson
        /\ InitStore(hasRecord, text, "full")

NextLlm ==
    \/ ParseResponse
    \/ RetryEvaluate(Subject)

SpecLlm == InitLlm /\ [][NextLlm]_vars

-----------------------------------------------------------------------------
(* decompress_applicant_data one remote call at a time.  batch holds the   *)
(* position in the code (pc), the applicant, the validated document, the   *)
(* store at the start, the remote calls that raised (a record like NoFail) *)
(* and the writes the store has accepted so far, in order.                 *)

\* variant: the new rows are created first, the existing ones deleted after
WorkPhase_createfirst(todo, next, experience_data) ==
    IF next <= Len(experience_data) THEN "create"
    ELSE IF todo # <<>> THEN "delete"
    ELSE "done"

\* Where upsert_work_experience stands after its listing: in the loop over
\* the existing records still to delete (todo), in the loop over
\* experience_data from entry `next` on, or past both.
WorkPhase(todo, next, experience_data) ==
    IF todo # <<>> THEN "delete"
    ELSE IF next <= Len(experience_data) THEN "create"
    ELSE "done"

Written(table, call, what) == [table |-> table, call |-> call, what |-> what]

\* Up to the first upsert: the record is read and the document validated;
\* False is returned at once when that fails.
WriteStart(a) ==
    /\ batch.pc \in {"idle", "done"}
    /\ \E failGet \in BOOLEAN :
        /\ Failing(Count(failGet))
        /\ \E r \in {DecompressTry(TheStore, a, [NoFail EXCEPT !.get = failGet])} :
            IF r.raised
            THEN /\ Done("decompress", a, <<>>, FALSE, FALSE, ~failGet, <<>>)
                 /\ batch' = Idle
            ELSE /\ batch' =
                    [pc |-> "personal", a |-> a,
                     app |-> CompressedApplication(
                                JsonLoads(StoredText(TheStore, a)).data).app,
                     start |-> TheStore, fail |-> NoFail, writes |-> <<>>,
                     todo |-> <<>>, next |-> 1, call |-> 0]
                 /\ UNCHANGED lastOp
    /\ UNCHANGED Tables

\* self.client.upsert_personal_details(applicant_id, personal_data)
WritePersonal ==
    /\ batch.pc = "personal"
    /\ \E fail \in BOOLEAN :
        /\ Failing(Count(fail))
        /\ \E r \in {upsert_personal_details(TheStore, batch.a,
                                            PersonalData(batch.app), fail)} :
            /\ SetStore(r.store)
            /\ batch' =
                [batch EXCEPT
                    !.pc = "work",
                    !.fail.personal = fail,
                    !.writes =
                        IF fail THEN @
                        ELSE Append(@, Written("PersonalDetails",
                                IF get_personal_details(TheStore, batch.a).found
                                THEN "update" ELSE "create",
                                PersonalData(batch.app)))]
    /\ UNCHANGED lastOp

\* existing_records = self.get_work_experience(applicant_id)
WorkList ==
    /\ batch.pc = "work"
    /\ \E fail \in BOOLEAN :
        /\ Failing(Count(fail))
        /\ batch' =
            IF fail
            THEN [batch EXCEPT !.pc = "salary", !.fail.work = 1]
            ELSE [batch EXCEPT !.pc = "work_calls", !.call = 1,
                               !.todo = get_work_experience(TheStore, batch.a)]
    /\ UNCHANGED <<Tables, lastOp>>

\* self.work_experience_table.delete(record['id'])
WorkDelete ==
    /\ batch.pc = "work_calls"
    /\ WorkPhase(batch.todo, batch.next, ExperienceData(batch.app)) = "delete"
    /\ \E fail \in BOOLEAN :
        /\ Failing(Count(fail))
        /\ IF fail
           THEN /\ batch' = [batch EXCEPT !.pc = "salary", !.fail.work = batch.call + 1]
                /\ UNCHANGED Tables
           ELSE /\ SetStore([TheStore EXCEPT !.work =
                                TableDelete(@, Head(batch.todo).id)])
                /\ batch' =
                    [batch EXCEPT
                        !.todo = Tail(@), !.call = @ + 1,
                        !.writes = Append(@, Written("WorkExperience", "delete",
                                                     Head(batch.todo).id))]
    /\ UNCHANGED lastOp

\* exp[Applicant ID] = applicant_id; self.work_experience_table.create(exp)
WorkCreate ==
    /\ batch.pc = "work_calls"
    /\ WorkPhase(batch.todo, batch.next, ExperienceData(batch.app)) = "create"
    /\ \E fail \in BOOLEAN :
        /\ Failing(Count(fail))
        /\ IF fail
           THEN /\ batch' = [batch EXCEPT !.pc = "salary", !.fail.work = batch.call + 1]
                /\ UNCHANGED Tables
           ELSE /\ SetStore([TheStore EXCEPT !.work =
                                TableCreate(@, batch.a,
                                    ExperienceData(batch.app)[batch.next])])
                /\ batch' =
                    [batch EXCEPT
                        !.next = @ + 1, !.call = @ + 1,
                        !.writes = Append(@, Written("WorkExperience", "create",
                                        ExperienceData(batch.app)[batch.next]))]
    /\ UNCHANGED lastOp

\* self.client.upsert_salary_preferences(applicant_id, salary_data), reached
\* when upsert_work_experience has returned, True or False
WriteSalary ==
    /\ \/ batch.pc = "salary"
       \/ /\ batch.pc = "work_calls"
          /\ WorkPhase(batch.todo, batch.next, ExperienceData(batch.app)) = "done"
    /\ \E fail \in BOOLEAN :
        /\ Failing(Count(fail))
        /\ \E r \in {upsert_salary_preferences(TheStore, batch.a,
                                              SalaryData(batch.app), fail)} :
            /\ SetStore(r.store)
            /\ batch' =
                [batch EXCEPT
                    !.pc = "return",
                    !.fail.salary = fail,
                    !.writes =
                        IF fail THEN @
                        ELSE Append(@, Written("SalaryPreferences",
                                IF get_salary_preferences(TheStore, batch.a).found
                                THEN "update" ELSE "create",
                                SalaryData(batch.app)))]
    /\ UNCHANGED lastOp

\* return True
WriteReturn ==
    /\ batch.pc = "return"
    /\ Done("decompress", batch.a, <<>>, FALSE, TRUE, batch.fail = NoFail, <<>>)
    /\ batch' = [batch EXCEPT !.pc = "done"]
    /\ UNCHANGED <<Tables, failures>>

InitWrites ==
    \E text \in {JsonDumps(DocFull), JsonDumps(DocSparse), JsonDumps(DocInvalid)},
       sc \in {"empty", "full", "sparse"} :
        InitStore(TRUE, text, sc)

NextWrites ==
    \/ WriteStart(Subject)
    \/ WritePersonal
    \/ WorkList
    \/ WorkDelete
    \/ WorkCreate
    \/ WriteSalary
    \/ WriteReturn

SpecWrites == InitWrites /\ [][NextWrites]_vars

-----------------------------------------------------------------------------
(* main.py: the full-pipeline action.  batch holds the stage the pipeline  *)
(* is in, whether the stage has listed the applicants, the applicants it   *)
(* has still to process, the listing of every stage begun, and the log of  *)
(* the applicants processed, each one call of the stage's per-applicant    *)
(* operation.                                                              *)

\* variant: shortlisting is run before the LLM evaluation
StageOrder_swapped == <<"compress", "shortlist", "evaluate">>

\* compress_all_applicants, evaluate_all_applicants, shortlist_all_applicants
StageOrder == <<"compress", "evaluate", "shortlist">>

\* The per-applicant operation of a stage, with the remote failures it may
\* meet: [ok, store] for each of them, with the number of calls that raised.
StageRuns(stage, store, a) ==
    CASE stage = "compress" ->
            {[failed |-> Count(fail # "none"),
              ok |-> compress_all_step(store, a, fail).result # NoJson,
              store |-> compress_all_step(store, a, fail).store] :
                fail \in CompressFail}
      [] stage = "evaluate" ->
            {[failed |-> Count(in.fail # "none"),
              ok |-> update_applicant_evaluation(store, a, in.fail, in.failed,
                                                 ResponseGood).ok,
              store |-> update_applicant_evaluation(store, a, in.fail, in.failed,
                                                    ResponseGood).store] :
                in \in [fail : LlmFail, failed : {0, MaxRetries}]}
      [] stage = "shortlist" ->
            {[failed |-> Count(fail # "none"),
              ok |-> shortlist_applicant(store, a, fail).ok,
              store |-> shortlist_applicant(store, a, fail).store] :
                fail \in ShortlistFails(store, a)}

PipelineStart ==
    /\ batch.pc \in {"idle", "done", "raised"}
    /\ batch' = [pc |-> "running", stage |-> 1, listed |-> FALSE, queue |-> <<>>,
                 listings |-> <<>>, log |-> <<>>]
    /\ UNCHANGED <<Tables, lastOp, failures>>

\* all_applicants = self.client.applicants_table.all(), outside any try of the
\* stage: when it raises, main's except ends the process
StageList ==
    /\ batch.pc = "running"
    /\ ~batch.listed
    /\ \E fail \in BOOLEAN :
        /\ Failing(Count(fail))
        /\ batch' =
            IF fail THEN [batch EXCEPT !.pc = "raised"]
            ELSE [batch EXCEPT !.listed = TRUE,
                               !.queue = Listing(TheStore),
                               !.listings = Append(@, Listing(TheStore))]
    /\ UNCHANGED <<Tables, lastOp>>

\* One turn of the stage's loop: a row without an Applicant ID is passed over.
StageStep ==
    /\ batch.pc = "running"
    /\ batch.listed
    /\ batch.queue # <<>>
    /\ LET a == Head(batch.queue)
           stage == StageOrder[batch.stage]
       IN  IF a = ""
           THEN /\ batch' = [batch EXCEPT !.queue = Tail(@)]
                /\ UNCHANGED <<Tables, failures>>
           ELSE \E r \in StageRuns(stage, TheStore, a) :
                    /\ Failing(r.failed)
                    /\ SetStore(r.store)
                    /\ batch' =
                        [batch EXCEPT
                            !.queue = Tail(@),
                            !.log = Append(@, [stage |-> stage, a |-> a,
                                               ok |-> r.ok])]
    /\ UNCHANGED lastOp

\* return results, and main goes on to the next stage or to its summary
StageEnd ==
    /\ batch.pc = "running"
    /\ batch.listed
    /\ batch.queue = <<>>
    /\ batch' =
        IF batch.stage < Len(StageOrder)
        THEN [batch EXCEPT !.stage = @ + 1, !.listed = FALSE]
        ELSE [batch EXCEPT !.pc = "done"]
    /\ UNCHANGED <<Tables, lastOp, failures>>

\* Two applicants with a row without an Applicant ID between them.
InitPipeline ==
    \E text \in {NoJson, JsonDumps(DocFull)}, sc \in {"empty", "full"} :
        /\ applicants =
              <<ApplicantRow(1, Other, JsonDumps(DocSparse)),
                ApplicantRow(3, "", NoJson), ApplicantRow(2, Subject, text)>>
        /\ personalDetails = OtherPersonal \o SubjectPersonal(sc)
        /\ workExperience = InitWork(sc)
        /\ salaryPreferences = OtherSalary \o SubjectSalary(sc)
        /\ shortlistedLeads = <<>>
        /\ lastOp = NoOp
        /\ batch = Idle
        /\ failures = 0

NextPipeline ==
    \/ PipelineStart
    \/ StageList
    \/ StageStep
    \/ StageEnd

SpecPipeline == InitPipeline /\ [][NextPipeline]_vars

-----------------------------------------------------------------------------
(* Every per-applicant operation, run for the subject next to a bystander  *)
(* who has a record in every table.                                        *)

(* The frame is a property of single steps, so one injected failure per    *)
(* behaviour is enough to reach every failure point of every operation:   *)
(* the behaviours start with all but one failure of the budget spent.     *)
InitFrame ==
    /\ applicants = OtherApplicant \o <<ApplicantRow(2, Subject, JsonDumps(DocFull))>>
    /\ personalDetails = OtherPersonal \o SubjectPersonal("full")
    /\ workExperience = InitWork("full")
    /\ salaryPreferences = OtherSalary \o SubjectSalary("full")
    /\ shortlistedLeads = <<>>
    /\ lastOp = NoOp
    /\ batch = Idle
    /\ failures = MaxFailures - 1

NextFrame ==
    \/ Compress(Subject)
    \/ Decompress(Subject)
    \/ DecompressFromFile(Subject)
    \/ Shortlist(Subject)
    \/ UpdateEvaluationAnswered(Subject)
    \/ UpsertPersonalDetails(Subject)
    \/ UpsertWorkExperience(Subject)
    \/ UpsertSalaryPreferences(Subject)

SpecFrame == InitFrame /\ [][NextFrame]_vars

-----------------------------------------------------------------------------
(* upsert_work_experience called directly, with the number of the remote   *)
(* call that raised kept next to its outcome.                              *)

UpsertWorkExperienceAt(a) ==
    \E experience_data \in ExperienceInputs :
        \E failAt \in 0..WorkCalls(TheStore, a, experience_data) :
            /\ Failing(Count(failAt # 0))
            /\ \E r \in {upsert_work_experience(TheStore, a, experience_data, failAt)} :
                   /\ SetStore(r.store)
                   /\ Done("upsert_work_experience", a, experience_data, FALSE,
                           r.ok, failAt = 0, failAt)
                   /\ UNCHANGED batch

NextPartial == UpsertWorkExperienceAt(Subject)

SpecPartial == InitUpsert /\ [][NextPartial]_vars

-----------------------------------------------------------------------------
(* The properties.                                                         *)

\* The fields of the rows of applicant a, in table order.
Contents(table, a) ==
    LET rows == Matching(table, a) IN [i \in DOMAIN rows |-> rows[i].fields]

\* The step is a failure-free compression run right after a successful,
\* failure-free decompression of the same applicant.
RoundTripStep ==
    /\ lastOp.op = "decompress" /\ lastOp.ok /\ lastOp.clean
    /\ lastOp'.op = "compress" /\ lastOp'.clean /\ lastOp'.a = lastOp.a

EmptyForNone(v) == IF v.t = "str" THEN v ELSE Str("")

\* Document d with every optional field that is null or left out set to "".
Normalized(d) ==
    [personal |-> [d.personal EXCEPT !.linkedin = EmptyForNone(@)],
     experience |-> [i \in DOMAIN d.experience |->
                        [d.experience[i] EXCEPT !.end_date = EmptyForNone(@),
                                                !.technologies = EmptyForNone(@)]],
     salary |-> d.salary]

\* C1 as stated: a document D stored for an applicant, decompressed and then
\* compressed again, is stored back equal to D, whatever its optional fields.
C1_RoundTripAsStated ==
    [][RoundTripStep =>
        /\ lastOp'.ok
        /\ StoredText(TheStore, Subject)' = StoredText(TheStore, Subject)]_vars

\* C1 (amended): decompressing a stored document D and compressing again stores
\* D with each null or missing optional field (linkedin, end_date,
\* technologies) replaced by the empty string, every other field and the order
\* of the experience list as in D; so it stores D itself when those fields are
\* all strings.
C1_RoundTrip ==
    [][RoundTripStep =>
        /\ lastOp'.ok
        /\ StoredText(TheStore, Subject)' =
              JsonDumps(Normalized(StoredText(TheStore, Subject).data))]_vars

\* A round trip has run on the document whose optional fields are all strings,
\* and that document, with its two experience entries in order, is stored.
C1_Witness ==
    /\ lastOp.op = "compress" /\ lastOp.ok /\ lastOp.clean
    /\ lastOp.prev = "decompress"
    /\ StoredText(TheStore, Subject) = JsonDumps(DocFull)
    /\ Len(Matching(workExperience, Subject)) = 2

\* C2: after a failure-free upsert_work_experience(a, S), the first and the
\* repeated one alike, the rows of a are exactly the entries of S, in order:
\* Len(S) rows, and after a second call the same contents as after the first.
C2_UpsertIdempotent ==
    (lastOp.op = "upsert_work_experience" /\ lastOp.clean) =>
        /\ lastOp.ok
        /\ Len(Matching(workExperience, lastOp.a)) = Len(lastOp.arg)
        /\ Contents(workExperience, lastOp.a) = lastOp.arg

\* The same two-entry sequence has been upserted twice in a row.
C2_Witness ==
    /\ lastOp.op = "upsert_work_experience" /\ lastOp.rep /\ lastOp.clean
    /\ Len(lastOp.arg) = 2
    /\ Len(Matching(workExperience, lastOp.a)) = 2

\* The compression of applicant a cannot go through: a required row is
\* missing, or the document assembled from the rows fails the schema.
CompressBlockedFor(store, a) ==
    LET personal_details == get_personal_details(store, a)
        salary_preferences == get_salary_preferences(store, a)
    IN  \/ ~personal_details.found
        \/ ~salary_preferences.found
        \/ ~ValidDocument(CompressedData(personal_details.row,
                                         get_work_experience(store, a),
                                         salary_preferences.row))

CompressBlocked == CompressBlockedFor(TheStore, Subject)

\* C10: a compression of an applicant whose PersonalDetails or
\* SalaryPreferences row is missing, or whose assembled document fails the
\* schema, raises and leaves every table, the stored document included, as it
\* was.
C10_CompressFailsClosed ==
    [][(lastOp'.op = "compress" /\ CompressBlocked) =>
        (lastOp'.raised /\ UNCHANGED Tables)]_vars

\* A compression with no remote failure has raised on the schema.
C10_Witness ==
    /\ lastOp.op = "compress" /\ lastOp.raised /\ lastOp.clean
    /\ lastOp.out = "ValidationError"
    /\ CompressBlocked

-----------------------------------------------------------------------------
(* The shortlist criteria as the specification states them, computed from  *)
(* the stored document.                                                    *)

\* The document stored for applicant a passes the schema.
HasDocument(store, a) ==
    LET text == StoredText(store, a)
    IN  text.k = "json" /\ ValidDocument(text.data)

StoredDocument(store, a) == ModelOf(StoredText(store, a).data)

\* The date a YYYY-MM-DD text denotes, <<>> for any other text.
DateOf(s) ==
    CASE s = "2016-01-01" -> <<2016, 1, 1>>
      [] s = "2016-01-02" -> <<2016, 1, 2>>
      [] s = "2020-01-01" -> <<2020, 1, 1>>
      [] s = "2024-01-01" -> <<2024, 1, 1>>
      [] OTHER -> <<>>

\* The day the evaluation runs.
Today == <<2025, 1, 1>>

\* The number of the day, counted from 1970-01-01.
DayNumber(date) ==
    LET y == IF date[2] <= 2 THEN date[1] - 1 ELSE date[1]
        era == y \div 400
        yoe == y - era * 400
        mp == (date[2] + 9) % 12
        doy == (153 * mp + 2) \div 5 + date[3] - 1
        doe == yoe * 365 + yoe \div 4 - yoe \div 100 + doy
    IN  era * 146097 + doe - 719468

\* end - start in days; end is today when absent, empty or "present"; an
\* entry with a malformed date counts nothing.
StatedDays(entry) ==
    LET start == DateOf(entry.start_date.s)
        open == \/ ~Truthy(entry.end_date)
                \/ entry.end_date.s \in {"present", "Present"}
        end == IF open THEN Today ELSE DateOf(entry.end_date.s)
    IN  IF start = <<>> \/ end = <<>> THEN 0
        ELSE DayNumber(end) - DayNumber(start)

RECURSIVE StatedTotalDays(_)
StatedTotalDays(experience) ==
    IF experience = <<>> THEN 0
    ELSE StatedDays(Head(experience)) + StatedTotalDays(Tail(experience))

\* days / 365.25 >= MIN_EXPERIENCE_YEARS
StatedYearsReached(experience) ==
    StatedTotalDays(experience) * 100 >= MIN_EXPERIENCE_YEARS * 36525

\* An employer name contains a tier-1 company name, letter case aside.
StatedTier1(experience) ==
    \E i \in DOMAIN experience, tier_company \in TIER_1_COMPANIES :
        Contains(Lower(Chars(experience[i].company.s)),
                 Lower(Chars(tier_company)))

StatedExperience(doc) ==
    StatedYearsReached(doc.experience) \/ StatedTier1(doc.experience)

\* The factor of a currency code, in thousandths.
StatedFactor(currency) ==
    LET code == Upper(Chars(currency))
    IN  CASE code = Chars("EUR") -> 1100
          [] code = Chars("GBP") -> 1300
          [] code = Chars("CAD") -> 750
          [] code = Chars("INR") -> 12
          [] OTHER -> 1000

StatedCompensation(doc) ==
    /\ doc.salary.preferred_rate.n * StatedFactor(doc.salary.currency.s)
          <= 100 * 1000
    /\ doc.salary.availability_hours.n >= 20

StatedLocation(doc) ==
    \E eligible_loc \in ELIGIBLE_LOCATIONS :
        Contains(Upper(Chars(doc.personal.location.s)),
                 Upper(Chars(eligible_loc)))

StatedShortlist(doc) ==
    StatedExperience(doc) /\ StatedCompensation(doc) /\ StatedLocation(doc)

\* A failure-free evaluation of the subject, whose stored document is valid,
\* has just returned.
Evaluated ==
    /\ lastOp.op = "evaluate" /\ lastOp.clean /\ lastOp.a = Subject
    /\ HasDocument(TheStore, Subject)

\* C3: shortlist_applicant appends exactly one lead, with the stored document
\* text, and returns true when the stored document passes the experience,
\* compensation and location criteria; otherwise it returns false and no table
\* changes.
C3_ShortlistIffAllPass ==
    [][(lastOp'.op = "shortlist" /\ lastOp'.clean
            /\ HasDocument(TheStore, Subject)) =>
        IF StatedShortlist(StoredDocument(TheStore, Subject))
        THEN /\ lastOp'.ok
             /\ Len(shortlistedLeads') = Len(shortlistedLeads) + 1
             /\ shortlistedLeads'[Len(shortlistedLeads')].applicant = Subject
             /\ shortlistedLeads'[Len(shortlistedLeads')].json =
                    StoredText(TheStore, Subject)
             /\ UNCHANGED <<applicants, personalDetails, workExperience,
                            salaryPreferences>>
        ELSE ~lastOp'.ok /\ UNCHANGED Tables]_vars

\* C4: the evaluation of a stored document with an employer whose name
\* contains a tier-1 company name returns experience_qualified and
\* tier_1_experience true, whatever the years of experience.
C4_Tier1Override ==
    (Evaluated /\ StatedTier1(StoredDocument(TheStore, Subject).experience)) =>
        /\ lastOp.out.experience_qualified
        /\ lastOp.out.tier_1_experience

\* C5: the evaluation of a stored document with no tier-1 employer returns
\* experience_qualified true exactly when the days of its entries add up to
\* four years or more.
C5_ExperienceThreshold ==
    (Evaluated /\ ~StatedTier1(StoredDocument(TheStore, Subject).experience)) =>
        (lastOp.out.experience_qualified <=>
            StatedYearsReached(StoredDocument(TheStore, Subject).experience))

\* C6: the evaluation of a stored document returns compensation_qualified true
\* exactly when the preferred rate times the factor of its currency is at
\* most 100 and the availability is at least 20 hours.
C6_Compensation ==
    Evaluated =>
        (lastOp.out.compensation_qualified <=>
            StatedCompensation(StoredDocument(TheStore, Subject)))

\* Nothing for evaluate_applicant to evaluate: no Applicant record, no stored
\* text, text that is not JSON, or a document that fails the schema.
NoValidDocument == ~HasDocument(TheStore, Subject)

\* C7: evaluate_applicant returns and never raises, and changes no table; with
\* no Applicant record, no stored document or a document that fails parsing or
\* validation it returns the all-false criteria, 0 years, with the error
\* rationale.
C7_EvaluateNeverRaises ==
    [][lastOp'.op = "evaluate" =>
        /\ ~lastOp'.raised
        /\ UNCHANGED Tables
        /\ (NoValidDocument => lastOp'.out = ErrorCriteria)]_vars

\* An evaluation has returned the error criteria for a stored document that
\* fails the schema.
C7_Witness ==
    /\ lastOp.op = "evaluate" /\ lastOp.clean /\ ~lastOp.raised
    /\ StoredText(TheStore, Subject) = JsonDumps(DocInvalid)
    /\ lastOp.out = ErrorCriteria
    /\ shortlistedLeads = <<>>

-----------------------------------------------------------------------------
(* The propagation of errors out of the per-applicant operations.          *)

PerApplicantOps ==
    {"compress", "decompress", "decompress_file", "shortlist", "update_evaluation"}

-----------------------------------------------------------------------------
(* The isolation of the applicants of a batch.                             *)

\* The applicants named in a listing, in its order.
Named(listing) == SelectSeq(listing, LAMBDA a : a # "")

\* The operation of the batch fails for applicant a: its call met a remote
\* failure, or the data it needs is missing or invalid.
FailsFor(a) ==
    \/ a \in batch.hit
    \/ batch.kind = "compress" /\ CompressBlockedFor(TheStore, a)
    \/ batch.kind = "decompress" /\ ~HasDocument(TheStore, a)

FailureResult == IF batch.kind = "compress" THEN NoJson ELSE BoolResult(FALSE)

-----------------------------------------------------------------------------
(* The LLM evaluator: the retry loop and the parser.                       *)

\* The first call that answers, 0 when every call raises.
FirstAnswer(outcomes) ==
    IF \E i \in DOMAIN outcomes : ~outcomes[i].raises
    THEN CHOOSE i \in DOMAIN outcomes :
            ~outcomes[i].raises /\ \A j \in 1..(i - 1) : outcomes[j].raises
    ELSE 0

\* C11: evaluate_applicant_with_retry makes at most max_retries calls of the
\* remote model, each one after the first only when the one before raised; it
\* stops at the first call that answers and returns that answer parsed; it
\* returns nothing when all max_retries calls raise.
C11_BoundedRetry ==
    lastOp.op = "retry" =>
        LET max_retries == lastOp.arg.max_retries
            outcomes == lastOp.arg.outcomes
            calls == lastOp.out.calls
            first == FirstAnswer(outcomes)
            reached == lastOp.clean /\ StoredText(TheStore, lastOp.a) # NoJson
        IN  /\ Len(calls) <= max_retries
            /\ \A i \in DOMAIN calls : calls[i] = outcomes[i]
            /\ \A i \in 1..(Len(calls) - 1) : calls[i].raises
            /\ lastOp.out.found <=> (calls # <<>> /\ ~calls[Len(calls)].raises)
            /\ lastOp.out.found =>
                    lastOp.out.evaluation =
                        parse_llm_response(calls[Len(calls)].response)
            /\ (reached /\ first # 0) => (lastOp.out.found /\ Len(calls) = first)
            /\ (reached /\ first = 0) =>
                    (~lastOp.out.found /\ Len(calls) = max_retries)

\* Of three calls allowed the first raised and the second answered: two calls
\* were made and the answer returned.
C11_Witness ==
    /\ lastOp.op = "retry" /\ lastOp.clean
    /\ lastOp.arg.max_retries = MaxRetries
    /\ lastOp.arg.outcomes[1].raises
    /\ ~lastOp.arg.outcomes[2].raises
    /\ lastOp.out.found
    /\ Len(lastOp.out.calls) = 2

(***************************************************************************)
(* The reply parser as the specification states it.                        *)
(***************************************************************************)
Labels == {"Summary:", "Score:", "Issues:", "Follow-Ups:"}

NoLabels(response) == \A i \in DOMAIN response : response[i].label \notin Labels

Parsed == lastOp.op = "parse"

\* the text after the given label of a reply that has one line of that label
StatedText(response, label) ==
    response[CHOOSE i \in DOMAIN response : response[i].label = label].text

\* C12: a reply with none of the expected labels yields the fixed fallback
\* evaluation (summary "Error parsing LLM response", score 5, exactly one
\* issue, exactly one follow-up asking for manual review) and the parser
\* does not raise.
C12_GarbledIsFallback ==
    (Parsed /\ NoLabels(lastOp.arg)) =>
        /\ ~lastOp.raised
        /\ lastOp.out.summary = "Error parsing LLM response"
        /\ lastOp.out.score = 5
        /\ Len(lastOp.out.issues) = 1
        /\ lastOp.out.follow_ups = <<"Please manually review this applicant">>


\* C12 as the code has it: a reply with none of the expected labels yields
\* the evaluation filled with the defaults (summary "No summary provided",
\* score 5, no issue, no follow-up) and the parser does not raise.
C12_GarbledIsDefaults ==
    (Parsed /\ NoLabels(lastOp.arg)) =>
        /\ ~lastOp.raised
        /\ lastOp.out = [summary |-> "No summary provided", score |-> 5,
                         issues |-> <<>>, follow_ups |-> <<>>]

C12_Witness ==
    /\ Parsed
    /\ lastOp.arg = ResponseGarbled
    /\ lastOp.out.summary = "No summary provided"

\* the items of a comma-separated text, each without its surrounding blanks
StatedItems(text) ==
    LET items == Split(Chars(text), ",")
    IN  [i \in DOMAIN items |-> Strip(items[i])]

\* what the specification says a well-formed reply parses to, but for the
\* score
StatedIssues(response) ==
    LET text == StatedText(response, "Issues:").s
    IN  IF Lower(Chars(text)) = Chars("none") THEN <<>> ELSE StatedItems(text)

StatedFollowUps(response) ==
    LET text == StatedText(response, "Follow-Ups:").s
    IN  IF text = "" THEN <<>> ELSE <<Unbullet(text)>>

\* C13: for a reply with one line each of Summary:, Score:, Issues: and
\* Follow-Ups:, the parser returns the integer after Score: (5 when the text
\* is not an integer), no issues when the Issues text is "none" in any case
\* and otherwise the comma-split trimmed items, and the Follow-Ups text
\* without its leading bullet.
C13_LabelParsing ==
    (Parsed /\ lastOp.arg \in WellFormed) =>
        LET score == StatedText(lastOp.arg, "Score:")
        IN  /\ lastOp.out.score = IF score.t = "num" THEN score.n ELSE 5
            /\ lastOp.out.issues = StatedIssues(lastOp.arg)
            /\ lastOp.out.follow_ups = StatedFollowUps(lastOp.arg)

\* the nearest bound of 1..10
Clamp(n) == IF n < 1 THEN 1 ELSE IF n > 10 THEN 10 ELSE n

\* C14: every evaluation the parser returns has a score in 1..10; an
\* integer after Score: is returned clamped to the nearest bound, with the
\* summary, issues and follow-ups of the reply kept; only a score that is
\* not an integer yields the default 5.
C14_ScoreClamped ==
    (Parsed /\ lastOp.arg \in WellFormed) =>
        LET score == StatedText(lastOp.arg, "Score:")
            summary == StatedText(lastOp.arg, "Summary:").s
        IN  /\ lastOp.out.score \in 1..10
            /\ score.t = "num" =>
                /\ lastOp.out.score = Clamp(score.n)
                /\ lastOp.out.summary =
                        IF summary = "" THEN "No summary provided" ELSE summary
                /\ lastOp.out.issues = StatedIssues(lastOp.arg)
                /\ lastOp.out.follow_ups = StatedFollowUps(lastOp.arg)
            /\ score.t # "num" => lastOp.out.score = 5

(***************************************************************************)
(* Decompression from a file.                                              *)
(***************************************************************************)
FileDecompressed == lastOp.op = "decompress_file"

\* the document of a file, as CompressedApplication(**data) holds it
FileDocument(file) == CompressedApplication(JsonLoads(file).data).app

\* C15: whenever decompress_from_json_file returns true, the Applicant
\* record of the applicant exists and its stored document is the canonical
\* re-serialization of the document supplied in the file.
C15_FileStored ==
    (FileDecompressed /\ lastOp.ok) =>
        /\ get_applicant_by_id(TheStore, lastOp.a).found
        /\ StoredText(TheStore, lastOp.a) = JsonDumps(FileDocument(lastOp.arg))

\* text that is not JSON, or JSON that is not a valid document
Unusable(text) ==
    /\ text # NoJson
    /\ \/ ~JsonLoads(text).ok
       \/ ~CompressedApplication(JsonLoads(text).data).ok

\* C16: a decompression whose document (the stored one, or the one of the
\* file) is malformed or fails the schema returns failure, does not raise,
\* and creates, updates and deletes no row of any table.
C16_ValidateBeforeWrite ==
    [][(\/ lastOp'.op = "decompress"
           /\ Unusable(StoredText(TheStore, lastOp'.a))
        \/ lastOp'.op = "decompress_file" /\ Unusable(lastOp'.arg))
       => /\ ~lastOp'.ok
          /\ ~lastOp'.raised
          /\ Tables' = Tables]_vars

C16_Witness ==
    /\ FileDecompressed
    /\ lastOp.arg = JsonDumps(DocInvalid)
    /\ ~lastOp.ok
    /\ get_applicant_by_id(TheStore, lastOp.a).found

(***************************************************************************)
(* One record per applicant in PersonalDetails and SalaryPreferences.      *)
(***************************************************************************)
Ids(table) == [i \in DOMAIN table |-> table[i].id]

AtMostOne(table) == \A a \in {Subject, Other} : Len(Matching(table, a)) <= 1

\* a successful upsert of applicant a that led from table `before` to table
\* `after`: the one record of a was updated under its id and no record was
\* created, or a had none and one record was created
InPlaceOrCreated(before, after, a) ==
    /\ Len(Matching(after, a)) = 1
    /\ IF Matching(before, a) # <<>>
       THEN /\ Ids(after) = Ids(before)
            /\ Matching(after, a)[1].id = Matching(before, a)[1].id
       ELSE /\ Len(after) = Len(before) + 1
            /\ SubSeq(after, 1, Len(before)) = before
            /\ after[Len(after)].aid = a
            /\ after[Len(after)].id \notin RowIds(before)

\* C17: with at most one PersonalDetails and one SalaryPreferences record per
\* applicant at the start, every compress, decompress and upsert leaves at
\* most one of each per applicant; a successful upsert leaves exactly one,
\* the existing record updated under its record id, or a record created
\* when there was none.
C17_OneToOne ==
    [][/\ AtMostOne(personalDetails) /\ AtMostOne(salaryPreferences)
       /\ AtMostOne(personalDetails') /\ AtMostOne(salaryPreferences')
       /\ (lastOp'.op = "upsert_personal_details" /\ lastOp'.ok)
            => InPlaceOrCreated(personalDetails, personalDetails', lastOp'.a)
       /\ (lastOp'.op = "upsert_salary_preferences" /\ lastOp'.ok)
            => InPlaceOrCreated(salaryPreferences, salaryPreferences', lastOp'.a)
      ]_vars

\* an upsert of the subject's personal details right after a decompression
\* had written them
C17_Witness ==
    /\ lastOp.op = "upsert_personal_details"
    /\ lastOp.ok
    /\ lastOp.prev \in {"decompress", "decompress_file"}
    /\ Len(Matching(personalDetails, Subject)) = 1
    /\ Len(Matching(salaryPreferences, Subject)) = 1

(***************************************************************************)
(* The Shortlisted Leads table.                                            *)
(***************************************************************************)
IsPrefix(earlier, later) ==
    /\ Len(earlier) <= Len(later)
    /\ SubSeq(later, 1, Len(earlier)) = earlier

\* C18: across compressions, decompressions, shortlistings and LLM
\* evaluations the Shortlisted Leads table only grows at its end: what it
\* held before a step is a prefix of what it holds after.
C18_LeadsAppendOnly ==
    [][IsPrefix(shortlistedLeads, shortlistedLeads')]_vars

\* an operation of each kind has run on a table that holds leads
C18_Witness ==
    /\ Len(shortlistedLeads) >= 2
    /\ lastOp.op \in {"compress", "decompress", "shortlist", "update_evaluation"}
    /\ lastOp.clean

\* the leads of applicant a among the rows given
LeadsOf(leads, a) == SelectSeq(leads, LAMBDA r : r.applicant = a)

\* C19: leads are not deduplicated.  Every failure-free shortlist_applicant
\* of an applicant whose stored document passes the three criteria adds one
\* lead of that applicant, whether or not the table holds one already, so k
\* runs leave k leads.
C19_NoDeduplication ==
    [][(/\ lastOp'.op = "shortlist" /\ lastOp'.clean
        /\ HasDocument(TheStore, lastOp'.a)
        /\ StatedShortlist(StoredDocument(TheStore, lastOp'.a)))
       => /\ Len(LeadsOf(shortlistedLeads', lastOp'.a)) =
                Len(LeadsOf(shortlistedLeads, lastOp'.a)) + 1
          /\ IsPrefix(shortlistedLeads, shortlistedLeads')]_vars

(***************************************************************************)
(* Running the compressor or the decompressor again.                       *)
(***************************************************************************)
\* the rows of a table without their record ids
Fields(table) ==
    [i \in DOMAIN table |-> [aid |-> table[i].aid, fields |-> table[i].fields]]

\* the step runs, without a remote failure, the operation that the step
\* before it ran for the same applicant without a remote failure
RunAgain(op) ==
    /\ lastOp.op = op /\ lastOp.clean
    /\ lastOp'.op = op /\ lastOp'.clean /\ lastOp'.a = lastOp.a

\* C20: without remote failures, a second compress_applicant_data (or a
\* second decompress_applicant_data) run for the same applicant right after
\* the first leaves Applicants, PersonalDetails, WorkExperience and
\* SalaryPreferences with the contents the first run left, record ids of
\* WorkExperience aside, and returns what the first returned.
C20_RerunIdempotent ==
    [][(RunAgain("compress") \/ RunAgain("decompress")) =>
        /\ applicants' = applicants
        /\ personalDetails' = personalDetails
        /\ salaryPreferences' = salaryPreferences
        /\ Fields(workExperience') = Fields(workExperience)
        /\ lastOp'.ok = lastOp.ok]_vars

\* a second decompression has written the subject's work experience again
C20_Witness ==
    /\ lastOp.op = "decompress"
    /\ lastOp.rep
    /\ lastOp.ok
    /\ Len(Matching(workExperience, Subject)) >= 2

(***************************************************************************)
(* The canonical document.                                                 *)
(***************************************************************************)
NonEmptyStr(v) == v.t = "str" /\ v.s # ""

NonNegative(v) == v.t = "num" /\ v.n >= 0

\* the document as the specification wants it
Canonical(doc) ==
    /\ NonEmptyStr(doc.personal.full_name)
    /\ NonEmptyStr(doc.personal.email)
    /\ NonEmptyStr(doc.personal.location)
    /\ NonNegative(doc.salary.preferred_rate)
    /\ NonNegative(doc.salary.minimum_rate)
    /\ NonNegative(doc.salary.availability_hours)

\* C21: every document that compress_applicant_data or
\* decompress_from_json_file has written to the Applicant's document field,
\* and every stored document a decompression has accepted, has non-empty
\* full_name, email and location and non-negative preferred_rate,
\* minimum_rate and availability_hours.
C21_CanonicalDocument ==
    (/\ lastOp.op \in {"compress", "decompress", "decompress_file"}
     /\ lastOp.ok
     /\ HasDocument(TheStore, lastOp.a))
        => Canonical(StoredDocument(TheStore, lastOp.a))

(***************************************************************************)
(* The waits of the retry loop.                                            *)
(***************************************************************************)
Retried == lastOp.op = "retry"

\* the loop of the last evaluate_applicant_with_retry was entered
LoopEntered == lastOp.clean /\ StoredText(TheStore, lastOp.a) # NoJson

AllRaise(outcomes) == \A i \in DOMAIN outcomes : outcomes[i].raises

\* C22 as stated: with 3 attempts and every model call failing, the loop
\* waits 1, 2 and 4 seconds, 2^attempt seconds after failed attempt number
\* attempt = 0, 1, 2.
C22_BackoffAsStated ==
    (/\ Retried /\ LoopEntered
     /\ lastOp.arg.max_retries = MaxRetries
     /\ AllRaise(lastOp.arg.outcomes))
        => lastOp.out.waits = <<1, 2, 4>>

\* C22 as the code has it: the loop waits 2^attempt seconds after failed
\* attempt number attempt, except after the last attempt allowed, so 1 and 2
\* seconds for 3 failing attempts; it waits only after a call that raised
\* and is followed by another call; and when the read of the Applicant
\* record raises, or there is no record or no document, there is no call
\* and no wait at all.
C22_BackoffSchedule ==
    Retried =>
        LET calls == lastOp.out.calls
            waits == lastOp.out.waits
        IN  /\ Len(waits) = IF calls = <<>> THEN 0 ELSE Len(calls) - 1
            /\ \A i \in DOMAIN waits :
                    /\ waits[i] = Pow2(i - 1)
                    /\ calls[i].raises
            /\ ~LoopEntered => calls = <<>> /\ ~lastOp.out.found
            /\ (/\ LoopEntered
                /\ lastOp.arg.max_retries = MaxRetries
                /\ AllRaise(lastOp.arg.outcomes))
                    => waits = <<1, 2>>

C22_Witness ==
    /\ Retried /\ LoopEntered
    /\ lastOp.arg.max_retries = MaxRetries
    /\ AllRaise(lastOp.arg.outcomes)
    /\ lastOp.out.waits = <<1, 2>>
    /\ ~lastOp.out.found

(***************************************************************************)
(* Follow-up questions on several lines.                                   *)
(***************************************************************************)
\* the follow-up items of a reply as the specification reads them: the text
\* on the label's line, if any, and the text of every line after it, each
\* without its leading bullet
RECURSIVE StatedFollowUpItems(_, _)
StatedFollowUpItems(lines, under) ==
    IF lines = <<>> THEN <<>>
    ELSE LET line == Head(lines)
             rest == Tail(lines)
         IN  IF line.label = "Follow-Ups:"
             THEN (IF line.text.s = "" THEN <<>> ELSE <<Unbullet(line.text.s)>>)
                    \o StatedFollowUpItems(rest, TRUE)
             ELSE IF under /\ line.label = "text" /\ line.text.s # ""
             THEN <<Unbullet(line.text.s)>> \o StatedFollowUpItems(rest, TRUE)
             ELSE StatedFollowUpItems(rest, FALSE)

\* C23: when the reply has follow-up items on the lines after the
\* Follow-Ups: label, the parser returns every one of them, with the item
\* on the label's line if there is one, in order and without the leading
\* bullets.
C23_FollowUpsAcrossLines ==
    (Parsed /\ lastOp.arg \in BulletLists) =>
        lastOp.out.follow_ups = StatedFollowUpItems(lastOp.arg, FALSE)

(***************************************************************************)
(* The order of the writes of a decompression.                             *)
(***************************************************************************)
Writing == batch.pc \in {"personal", "work", "work_calls", "salary", "return", "done"}

\* the place of a write in the order stated
Rank(w) ==
    CASE w.table = "PersonalDetails" -> 1
      [] w.table = "WorkExperience" /\ w.call = "delete" -> 2
      [] w.table = "WorkExperience" /\ w.call = "create" -> 3
      [] w.table = "SalaryPreferences" -> 4

WritesOf(rank) == SelectSeq(batch.writes, LAMBDA w : Rank(w) = rank)

What(writes) == [i \in DOMAIN writes |-> writes[i].what]

\* C24: the writes of a decompression come in the order PersonalDetails,
\* WorkExperience, SalaryPreferences, with at most one write to the first
\* and to the last; no WorkExperience row is created before every row the
\* applicant had is deleted; the rows are created in the order of the
\* document's experience, one per entry when the decompression meets no
\* remote failure, and then the applicant's rows are those of the document;
\* and what the calls leave, taken one at a time, is what
\* decompress_applicant_data leaves.
C24_WriteOrder ==
    Writing =>
        LET writes == batch.writes
            experience_data == ExperienceData(batch.app)
            created == What(WritesOf(3))
            returned == batch.pc \in {"return", "done"}
        IN  /\ \A i, j \in DOMAIN writes : i < j => Rank(writes[i]) <= Rank(writes[j])
            /\ Len(WritesOf(1)) <= 1
            /\ Len(WritesOf(4)) <= 1
            /\ created # <<>> =>
                    {w.what : w \in {WritesOf(2)[i] : i \in DOMAIN WritesOf(2)}}
                        = RowIds(get_work_experience(batch.start, batch.a))
            /\ Len(created) <= Len(experience_data)
            /\ created = SubSeq(experience_data, 1, Len(created))
            /\ (returned /\ batch.fail = NoFail) =>
                    /\ Len(WritesOf(1)) = 1
                    /\ Len(WritesOf(4)) = 1
                    /\ created = experience_data
                    /\ Contents(workExperience, batch.a) = experience_data
            /\ returned =>
                    TheStore = decompress_applicant_data(batch.start, batch.a,
                                                         batch.fail).store

\* a decompression without remote failure has returned after one delete or
\* more and two creates or more
C24_Witness ==
    /\ batch.pc = "done"
    /\ batch.fail = NoFail
    /\ Len(WritesOf(2)) >= 1
    /\ Len(WritesOf(3)) >= 2
    /\ Len(WritesOf(4)) = 1

(***************************************************************************)
(* The order of the full pipeline.                                         *)
(***************************************************************************)
InPipeline == batch.pc \in {"running", "done", "raised"}

\* the place of a stage in the order stated
StatedStage(stage) ==
    CASE stage = "compress" -> 1
      [] stage = "evaluate" -> 2
      [] stage = "shortlist" -> 3

\* the applicants the log has for the stage of the given place, in order
LoggedIn(place) ==
    LET entries == SelectSeq(batch.log, LAMBDA e : StatedStage(e.stage) = place)
    IN  [i \in DOMAIN entries |-> entries[i].a]

WithId(listing) == SelectSeq(listing, LAMBDA a : a # "")

\* C25: the pipeline runs compress-all, then LLM-evaluate-all, then
\* shortlist-all: no applicant is processed by a stage before the stage
\* before it has processed every applicant it listed, and within a stage
\* the applicants are processed one after the other, each once, in the
\* order of the stage's listing.
C25_PipelineOrder ==
    InPipeline =>
        LET log == batch.log
            begun == Len(batch.listings)
        IN  /\ \A i, j \in DOMAIN log :
                    i < j => StatedStage(log[i].stage) <= StatedStage(log[j].stage)
            /\ \A place \in 1..3 :
                    IF place < begun \/ (place = begun /\ batch.pc = "done")
                    THEN LoggedIn(place) = WithId(batch.listings[place])
                    ELSE IF place = begun
                    THEN LoggedIn(place) \o WithId(batch.queue)
                            = WithId(batch.listings[place])
                    ELSE LoggedIn(place) = <<>>

\* the pipeline has ended after processing both applicants in each stage
C25_Witness ==
    /\ batch.pc = "done"
    /\ Len(batch.log) = 6
    /\ LoggedIn(3) = <<Other, Subject>>
    /\ \E i \in DOMAIN batch.log : batch.log[i].stage = "evaluate" /\ batch.log[i].ok

(***************************************************************************)
(* The records of the other applicants.                                    *)
(***************************************************************************)
\* the records of a table that belong to an applicant other than a
OthersIn(table, a) == SelectSeq(table, LAMBDA r : r.aid # a)

\* C26: an operation run for applicant a (compress, decompress from the
\* store or from a file, shortlist, LLM evaluation update, each upsert)
\* leaves every Applicants, PersonalDetails, WorkExperience and
\* SalaryPreferences record of any other applicant as it was, record id and
\* fields.
C26_PerApplicantFrame ==
    [][/\ OthersIn(applicants', lastOp'.a) = OthersIn(applicants, lastOp'.a)
       /\ OthersIn(personalDetails', lastOp'.a) = OthersIn(personalDetails, lastOp'.a)
       /\ OthersIn(workExperience', lastOp'.a) = OthersIn(workExperience, lastOp'.a)
       /\ OthersIn(salaryPreferences', lastOp'.a) = OthersIn(salaryPreferences, lastOp'.a)
      ]_vars

\* the subject's work experience has been rewritten next to the bystander's
C26_Witness ==
    /\ lastOp.op \in {"decompress", "decompress_file", "upsert_work_experience"}
    /\ lastOp.ok /\ lastOp.clean
    /\ lastOp.a = Subject
    /\ OthersIn(workExperience, Subject) = OtherWork
    /\ OthersIn(personalDetails, Subject) = OtherPersonal
    /\ Len(Matching(workExperience, Subject)) >= 2

(***************************************************************************)
(* The result of a decompression.                                          *)
(***************************************************************************)
\* What the store shows before the call that makes decompress_applicant_data
\* return false: no Applicant record, an empty stored document, or a stored
\* document that is not JSON or fails the schema.
DecompressRefused(store, a) ==
    \/ ~get_applicant_by_id(store, a).found
    \/ StoredText(store, a) = NoJson
    \/ Unusable(StoredText(store, a))

\* The three tables hold, for applicant a, what document doc says.
TablesMatch(store, a, doc) ==
    /\ Contents(store.personal, a) = <<PersonalData(doc)>>
    /\ Contents(store.work, a) = ExperienceData(doc)
    /\ Contents(store.salary, a) = <<SalaryData(doc)>>

\* C27: decompress_applicant_data raises nothing and returns false exactly
\* when the Applicant record is absent, its stored document is empty, the
\* document fails parsing or validation, or the read of the record raises;
\* it then writes nothing.  Once validation has passed it returns true
\* whichever of the three upserts failed, the tables being left as those
\* upserts left them.
C27_DecompressResult ==
    [][lastOp'.op = "decompress" =>
        LET a == lastOp'.a
            refused == DecompressRefused(TheStore, a)
            doc == StoredDocument(TheStore, a)
        IN  /\ ~lastOp'.raised
            /\ refused => ~lastOp'.ok
            /\ ~lastOp'.ok => Tables' = Tables
            /\ \E fail \in DecompressFails(TheStore, a, StoredText(TheStore, a), FALSE) :
                   /\ lastOp'.clean = (fail = NoFail)
                   /\ lastOp'.ok = ~(fail.get \/ refused)
                   /\ lastOp'.ok => TheStore' = UpsertDocument(TheStore, a, doc, fail)
            /\ (lastOp'.ok /\ lastOp'.clean) => TablesMatch(TheStore', a, doc)]_vars

\* decompress_applicant_data has returned true although one of its upserts
\* failed, and the tables do not hold the stored document.
C27_Witness ==
    /\ lastOp.op = "decompress" /\ lastOp.ok /\ ~lastOp.clean
    /\ ~TablesMatch(TheStore, lastOp.a, StoredDocument(TheStore, lastOp.a))

(***************************************************************************)
(* A work experience upsert that fails part-way.                           *)
(***************************************************************************)
\* C28: when a delete or a create of upsert_work_experience(a, S) raises, the
\* call returns false without raising and nothing is undone: after a failed
\* delete the rows of a are the old rows not yet deleted, the one whose
\* delete failed among them; after a failed create they are the rows created
\* so far, a strict prefix of S in order, and none of the old rows.  The
\* rows of other applicants stay as they were.
C28_PartialUpsert ==
    [][(lastOp'.op = "upsert_work_experience" /\ lastOp'.out >= 2) =>
        LET a == lastOp'.a
            S == lastOp'.arg
            failAt == lastOp'.out
            old == Matching(workExperience, a)
            n == Len(old)
            new == Matching(workExperience', a)
        IN  /\ ~lastOp'.ok
            /\ ~lastOp'.raised
            /\ OthersIn(workExperience', a) = OthersIn(workExperience, a)
            /\ failAt <= 1 + n =>
                   /\ new = SubSeq(old, failAt - 1, n)
                   /\ new # <<>>
            /\ failAt > 1 + n =>
                   /\ Contents(workExperience', a) = SubSeq(S, 1, failAt - 2 - n)
                   /\ failAt - 2 - n < Len(S)
                   /\ workExperience' = OthersIn(workExperience, a) \o new]_vars

\* A create has failed after the first of two entries was created: the one
\* row of the subject is that entry.
C28_Witness ==
    /\ lastOp.op = "upsert_work_experience" /\ lastOp.out >= 2
    /\ ~lastOp.ok
    /\ Len(lastOp.arg) = 2
    /\ Contents(workExperience, lastOp.a) = SubSeq(lastOp.arg, 1, 1)
    /\ workExperience[Len(workExperience)].aid = lastOp.a

====
